---- MODULE Spec2Model ----
(***************************************************************************)
(* The tabular health-record preprocessing pipeline of the repository      *)
(* (DiabetesDataProcessor): Cleaner -> TargetDeriver -> Imputer ->         *)
(* OutlierHandler -> FeatureEngineer -> CategoricalEncoder ->              *)
(* ImportanceRanker.                                                       *)
(*                                                                         *)
(* The Python script itself is not among the source files; the repository  *)
(* holds its README (appended to src/components/Navigation.tsx, lines      *)
(* 110-363) and src/PROJECT_SUMMARY.md.  Each stage is modelled from the   *)
(* specification's contract for it and from what the README states.        *)
(*                                                                         *)
(* A dataset is a sequence of records (rows) over one column schema, plus  *)
(* the declared kind of every column.  Numeric cells are fixed-point       *)
(* integers: the value of column c in a row r is r[c] / den[c], so that    *)
(* interpolated quartiles, IQR bounds and medians are exact.               *)
(*                                                                         *)
(* rows, kind, den and report are the working dataset and the metadata     *)
(* report of the run that is executing, pc the stage it has reached, and   *)
(* ranking the ImportanceRanker's result.  fitted holds what the two       *)
(* estimators return on this dataset with this seed.  parked holds the     *)
(* runs that are not executing at the moment, active names the one that is.*)
(*                                                                         *)
(* The repository's web application is modelled beside it: the pages       *)
(* CommunicationPage (src/unnamed/part_000), SignupPage                    *)
(* (src/app/(auth)/signup/page.tsx) and SettingsPage                       *)
(* (src/app/(crm)/settings/page.tsx), each with the state its component    *)
(* holds and one action per event handler.                                 *)
(***************************************************************************)
EXTENDS Integers, Sequences, FiniteSets, TLC

VARIABLES rows, kind, den, report, pc, ranking, fitted, parked, active,
          activeTab, selectedContact, messageInput,
          route, instance, formData, isLoading, timers, pushes, submits, alerts,
          profileData, preferences, showPassword,
          currentPassword, newPassword, confirmPassword

\* The state of the preprocessing pipeline.
pipeline == <<rows, kind, den, report, pc, ranking, fitted, parked, active>>

\* The state of the pages of the web application.  CommunicationPage:
\* activeTab, selectedContact, messageInput.  SignupPage: formData and
\* isLoading of the mounted component; route is the path the router shows,
\* instance counts the mounts of SignupPage, timers is the browser's queue of
\* pending setTimeout callbacks (each names the instance that started it),
\* pushes the log of router.push calls and submits counts the calls of
\* handleSubmit, all of them and those whose passwords matched.
\* SettingsPage: profileData, preferences, showPassword, currentPassword,
\* newPassword, confirmPassword.  alerts is the log of window.alert messages.
communication == <<activeTab, selectedContact, messageInput>>
signup == <<route, instance, formData, isLoading, timers, pushes, submits>>
settings == <<profileData, preferences, showPassword,
              currentPassword, newPassword, confirmPassword>>
pages == <<communication, signup, settings, alerts>>

vars == <<pipeline, pages>>

(***************************************************************************)
(* Bounds of the model.                                                    *)
(***************************************************************************)
MaxRows == 4

(***************************************************************************)
(* Values.                                                                 *)
(***************************************************************************)
\* The missing state of a numeric cell (pandas NaN) and of a categorical cell.
NaN == -1000000
NA == "<NA>"
\* The raw file's missing-value sentinel, rewritten to missing by the Cleaner.
Sentinel == "?"

MissingOf(k) == IF k = "categorical" THEN NA ELSE NaN

\* Column kinds of the data model.
Kinds == {"numeric", "categorical", "identifier", "target"}

\* The fixed list of the 23 medication columns, and the value of a medication
\* whose dosage did not change.
MedicationColumns ==
  { "metformin", "repaglinide", "nateglinide", "chlorpropamide", "glimepiride",
    "acetohexamide", "glipizide", "glyburide", "tolbutamide", "pioglitazone",
    "rosiglitazone", "acarbose", "miglitol", "troglitazone", "tolazamide",
    "examide", "citoglipton", "insulin", "glyburide-metformin",
    "glipizide-metformin", "glimepiride-pioglitazone",
    "metformin-rosiglitazone", "metformin-pioglitazone" }
NoChange == "No"

\* The raw schema: the kind of every column of the raw file.
RawKind ==
  [ encounter_id |-> "identifier", race |-> "categorical",
    gender |-> "categorical", age |-> "categorical", weight |-> "numeric",
    discharge_disposition_id |-> "categorical",
    time_in_hospital |-> "numeric", num_lab_procedures |-> "numeric",
    num_procedures |-> "numeric", number_outpatient |-> "numeric",
    number_emergency |-> "numeric", number_inpatient |-> "numeric",
    diag_1 |-> "categorical", metformin |-> "categorical",
    insulin |-> "categorical", readmitted |-> "categorical" ]
  @@ [m \in MedicationColumns |-> "categorical"]

IdColumn == "encounter_id"
StatusColumn == "readmitted"
TargetColumn == "readmitted_30_days"
DischargeColumn == "discharge_disposition_id"
GenderColumn == "gender"

\* The three readmission-status categories; the first is "within 30 days".
StatusCategories == {"<30", ">30", "NO"}
PositiveCategory == "<30"
\* Discharge dispositions meaning expired or hospice.
ExpiredHospiceCodes == {"11", "13", "14", "19", "20", "21"}
UnknownGender == "Unknown/Invalid"

(***************************************************************************)
(* Sequence helpers.                                                       *)
(***************************************************************************)
Indices(s) == [i \in 1..Len(s) |-> i]

\* The rows at the positions kept, in their order.
KeptRows(rs, kept) == [k \in 1..Len(kept) |-> rs[kept[k]]]

Column(rs, c) == [i \in 1..Len(rs) |-> rs[i][c]]

RECURSIVE SumSeq(_)
SumSeq(s) == IF s = <<>> THEN 0 ELSE Head(s) + SumSeq(Tail(s))

Count(s, v) == Cardinality({i \in 1..Len(s) : s[i] = v})

Distinct(s) == {s[i] : i \in 1..Len(s)}

(***************************************************************************)
(* 4.1 Cleaner                                                             *)
(***************************************************************************)
\* drop_duplicates(): of rows equal in every column, the first is kept.
RemoveDuplicateRows(rs) ==
  KeptRows(rs, SelectSeq(Indices(rs), LAMBDA i : \A j \in 1..(i - 1) : rs[j] # rs[i]))

\* replace('?', NaN): the sentinel becomes the missing state in every column.
RewriteCell(k, v) == IF k = "categorical" /\ v = Sentinel THEN NA ELSE v

RewriteSentinel(rs, kd) ==
  [i \in 1..Len(rs) |-> [c \in DOMAIN kd |-> RewriteCell(kd[c], rs[i][c])]]

RemoveExpiredHospice(rs) ==
  SelectSeq(rs, LAMBDA r : r[DischargeColumn] \notin ExpiredHospiceCodes)

\* Faulty variant: rows of unknown gender are kept.
KeepUnknownGender(rs) == rs


RemoveUnknownGender(rs) ==
  SelectSeq(rs, LAMBDA r : r[GenderColumn] # UnknownGender)

\* Faulty variant: rows sharing an encounter identifier are all kept.
KeepDuplicateEncounters(rs) == rs

\* drop_duplicates(subset=[encounter_id]): one row per encounter, the first.
RemoveDuplicateEncounters(rs) ==
  KeptRows(rs, SelectSeq(Indices(rs),
    LAMBDA i : \A j \in 1..(i - 1) : rs[j][IdColumn] # rs[i][IdColumn]))

CleanerRequired == {DischargeColumn, GenderColumn}

EmptyReport ==
  [ error |-> "none", raw_rows |-> 0, removed |-> <<>>, balance |-> <<>>,
    decisions |-> <<>>, dropped |-> {}, bounds |-> <<>>, omitted |-> {},
    derived |-> {}, plans |-> <<>> ]

\* Faulty variant: a filter whose column is absent is skipped.
CleanerSkippingFilters ==
  /\ pc = "clean"
  /\ UNCHANGED <<ranking, fitted, parked, active, pages>>
  /\ LET s1 == RemoveDuplicateRows(rows)
         s2 == RewriteSentinel(s1, kind)
         s3 == IF DischargeColumn \in DOMAIN kind THEN RemoveExpiredHospice(s2) ELSE s2
         s4 == IF GenderColumn \in DOMAIN kind THEN RemoveUnknownGender(s3) ELSE s3
         s5 == IF IdColumn \in DOMAIN kind THEN RemoveDuplicateEncounters(s4) ELSE s4
     IN  /\ rows' = s5
         /\ report' = [report EXCEPT
              !.raw_rows = Len(rows),
              !.removed = [ duplicates |-> Len(rows) - Len(s1),
                            expired_hospice |-> Len(s2) - Len(s3),
                            unknown_gender |-> Len(s3) - Len(s4),
                            duplicate_encounters |-> Len(s4) - Len(s5) ]]
         /\ pc' = "target"
         /\ UNCHANGED <<kind, den>>


\* Faulty variant: the removal counts are kept in one report shared by all
\* runs, so a run's counts start from those of the runs that cleaned before it.
CleanerSharedReport ==
  /\ pc = "clean"
  /\ UNCHANGED <<ranking, fitted, parked, active, pages>>
  /\ IF ~(CleanerRequired \subseteq DOMAIN kind)
     THEN /\ pc' = "failed"
          /\ report' = [report EXCEPT !.error = "DataFormatError"]
          /\ UNCHANGED <<rows, kind, den>>
     ELSE LET s1 == RemoveDuplicateRows(rows)
              s2 == RewriteSentinel(s1, kind)
              s3 == RemoveExpiredHospice(s2)
              s4 == RemoveUnknownGender(s3)
              s5 == IF IdColumn \in DOMAIN kind
                    THEN RemoveDuplicateEncounters(s4) ELSE s4
              before == SumSeq([j \in 1..3 |->
                          IF j \in DOMAIN parked /\ parked[j].pc # "clean"
                          THEN parked[j].report.raw_rows ELSE 0])
          IN  /\ rows' = s5
              /\ report' = [report EXCEPT
                   !.raw_rows = before + Len(rows),
                   !.removed = [ duplicates |-> Len(rows) - Len(s1),
                                 expired_hospice |-> Len(s2) - Len(s3),
                                 unknown_gender |-> Len(s3) - Len(s4),
                                 duplicate_encounters |-> Len(s4) - Len(s5) ]]
              /\ pc' = "target"
              /\ UNCHANGED <<kind, den>>


Cleaner ==
  /\ pc = "clean"
  /\ UNCHANGED <<ranking, fitted, parked, active, pages>>
  /\ IF ~(CleanerRequired \subseteq DOMAIN kind)
     THEN /\ pc' = "failed"
          /\ report' = [report EXCEPT !.error = "DataFormatError"]
          /\ UNCHANGED <<rows, kind, den>>
     ELSE LET s1 == RemoveDuplicateRows(rows)
              s2 == RewriteSentinel(s1, kind)
              s3 == RemoveExpiredHospice(s2)
              s4 == RemoveUnknownGender(s3)
              s5 == IF IdColumn \in DOMAIN kind
                    THEN RemoveDuplicateEncounters(s4) ELSE s4
          IN  /\ rows' = s5
              /\ report' = [report EXCEPT
                   !.raw_rows = Len(rows),
                   !.removed = [ duplicates |-> Len(rows) - Len(s1),
                                 expired_hospice |-> Len(s2) - Len(s3),
                                 unknown_gender |-> Len(s3) - Len(s4),
                                 duplicate_encounters |-> Len(s4) - Len(s5) ]]
              /\ pc' = "target"
              /\ UNCHANGED <<kind, den>>

(***************************************************************************)
(* 4.2 TargetDeriver                                                       *)
(***************************************************************************)
\* Faulty variant: any readmission counts as positive.
TargetOfAnyReadmission(status) == IF status \in {"<30", ">30"} THEN 1 ELSE 0


TargetOf(status) == IF status = PositiveCategory THEN 1 ELSE 0

\* Faulty variant: the ratio recorded is positives per negative row.
ClassBalancePerNegative(targets) ==
  [ positive |-> Count(targets, 1), negative |-> Count(targets, 0),
    ratio |-> [num |-> Count(targets, 1), den |-> Count(targets, 0)] ]

\* The class balance of the derived target column: the rows of each class and
\* the share of positive rows, as the fraction num / den.
ClassBalance(targets) ==
  [ positive |-> Count(targets, 1), negative |-> Count(targets, 0),
    ratio |-> [num |-> Count(targets, 1), den |-> Len(targets)] ]

\* Faulty variant: a status outside the expected categories defaults to 0.
TargetDeriverDefaulting ==
  /\ pc = "target"
  /\ UNCHANGED <<ranking, fitted, parked, active, pages>>
  /\ IF StatusColumn \notin DOMAIN kind
     THEN /\ pc' = "failed"
          /\ report' = [report EXCEPT !.error = "DataFormatError"]
          /\ UNCHANGED <<rows, kind, den>>
     ELSE LET targets == [i \in 1..Len(rows) |-> TargetOf(rows[i][StatusColumn])]
          IN  /\ rows' = [i \in 1..Len(rows) |->
                   rows[i] @@ (TargetColumn :> targets[i])]
              /\ kind' = kind @@ (TargetColumn :> "target")
              /\ den' = den @@ (TargetColumn :> 1)
              /\ report' = [report EXCEPT !.balance = ClassBalance(targets)]
              /\ pc' = "impute"


\* Faulty variant: the error is recorded and the run carries on.
TargetDeriverCarryingOn ==
  /\ pc = "target"
  /\ UNCHANGED <<ranking, fitted, parked, active, pages>>
  /\ LET bad == \/ StatusColumn \notin DOMAIN kind
                \/ \E i \in 1..Len(rows) : rows[i][StatusColumn] \notin StatusCategories
         targets == [i \in 1..Len(rows) |->
                       IF bad THEN 0 ELSE TargetOf(rows[i][StatusColumn])]
     IN  /\ rows' = [i \in 1..Len(rows) |->
              rows[i] @@ (TargetColumn :> targets[i])]
         /\ kind' = kind @@ (TargetColumn :> "target")
         /\ den' = den @@ (TargetColumn :> 1)
         /\ report' = [report EXCEPT
              !.error = IF bad THEN "DataFormatError" ELSE @,
              !.balance = ClassBalance(targets)]
         /\ pc' = "impute"


TargetDeriver ==
  /\ pc = "target"
  /\ UNCHANGED <<ranking, fitted, parked, active, pages>>
  /\ IF \/ StatusColumn \notin DOMAIN kind
        \/ \E i \in 1..Len(rows) : rows[i][StatusColumn] \notin StatusCategories
     THEN /\ pc' = "failed"
          /\ report' = [report EXCEPT !.error = "DataFormatError"]
          /\ UNCHANGED <<rows, kind, den>>
     ELSE LET targets == [i \in 1..Len(rows) |-> TargetOf(rows[i][StatusColumn])]
          IN  /\ rows' = [i \in 1..Len(rows) |->
                   rows[i] @@ (TargetColumn :> targets[i])]
              /\ kind' = kind @@ (TargetColumn :> "target")
              /\ den' = den @@ (TargetColumn :> 1)
              /\ report' = [report EXCEPT !.balance = ClassBalance(targets)]
              /\ pc' = "impute"

(***************************************************************************)
(* 4.3 Imputer                                                             *)
(***************************************************************************)
\* Numeric columns with a missing fraction strictly below this many percent
\* take the median; at or above it, the neighbor-based fill.
MedianThresholdPct == 20
\* Number of nearest rows of the neighbor-based fill.
KNeighbors == 5

Max(a, b) == IF a >= b THEN a ELSE b
Min(a, b) == IF a <= b THEN a ELSE b
Abs(a) == IF a < 0 THEN -a ELSE a

Sorted(s) == SortSeq(s, LAMBDA a, b : a < b)

MissingCount(rs, kd, c) == Count(Column(rs, c), MissingOf(kd[c]))

\* The non-missing values of a column, in row order.
Present(rs, kd, c) == SelectSeq(Column(rs, c), LAMBDA v : v # MissingOf(kd[c]))

\* The columns the Imputer decides on: not an identifier, not the target, and
\* at least one missing value.
ImputedColumns(rs, kd) ==
  {c \in DOMAIN kd : /\ kd[c] \in {"numeric", "categorical"}
                     /\ MissingCount(rs, kd, c) > 0}

\* Faulty variant: a missing fraction of exactly the threshold takes the median.
StrategyMedianAtThreshold(rs, kd, c) ==
  LET n == Len(rs)
      m == MissingCount(rs, kd, c)
  IN  IF m = n THEN "drop"
      ELSE IF kd[c] = "categorical" THEN "mode"
      ELSE IF Cardinality(Distinct(Present(rs, kd, c))) = 1 THEN "constant"
      ELSE IF 100 * m <= MedianThresholdPct * n THEN "median"
      ELSE "neighbor"

\* The one strategy of a column with missing values (the sum type
\* {Mode, Median, NeighborFill, ConstantFill, Drop}).
Strategy(rs, kd, c) ==
  LET n == Len(rs)
      m == MissingCount(rs, kd, c)
  IN  IF m = n THEN "drop"
      ELSE IF kd[c] = "categorical" THEN "mode"
      ELSE IF Cardinality(Distinct(Present(rs, kd, c))) = 1 THEN "constant"
      ELSE IF 100 * m < MedianThresholdPct * n THEN "median"
      ELSE "neighbor"

\* The most frequent category; of several, the first encountered.
Mode(vals) ==
  LET best == CHOOSE k \in 1..Len(vals) :
                /\ \A j \in 1..Len(vals) : Count(vals, vals[j]) <= Count(vals, vals[k])
                /\ \A j \in 1..(k - 1) : Count(vals, vals[j]) < Count(vals, vals[k])
  IN  vals[best]

\* The median of the values as a fraction <<numerator, denominator>>: the
\* middle value, or the mean of the two middle values.
Median(vals) ==
  LET s == Sorted(vals)
      n == Len(s)
  IN  IF n % 2 = 1 THEN <<s[(n + 1) \div 2], 1>>
      ELSE <<s[n \div 2] + s[n \div 2 + 1], 2>>

\* The feature space of the neighbor search: the other numeric columns that are
\* fully populated.
NeighborFeatures(rs, kd, c) ==
  {f \in DOMAIN kd : f # c /\ kd[f] = "numeric" /\ MissingCount(rs, kd, f) = 0}

MaxDen(dn, F) == IF F = {} THEN 1 ELSE CHOOSE d \in {dn[f] : f \in F} : \A f \in F : dn[f] <= d

RECURSIVE SetToSeq(_)
SetToSeq(S) ==
  IF S = {} THEN <<>>
  ELSE LET x == CHOOSE y \in S : TRUE IN <<x>> \o SetToSeq(S \ {x})

\* Distance between two rows over the feature columns (on a common denominator).
Distance(rs, dn, F, i, j) ==
  LET L == MaxDen(dn, F)
      fs == SetToSeq(F)
  IN  SumSeq([k \in 1..Len(fs) |->
                Abs(rs[i][fs[k]] - rs[j][fs[k]]) * (L \div dn[fs[k]])])

\* The rows that have a value in column c, nearest first (ties: earlier row).
Donors(rs, kd, dn, c, i) ==
  LET F == NeighborFeatures(rs, kd, c)
      have == SelectSeq(Indices(rs), LAMBDA j : rs[j][c] # NaN)
  IN  SortSeq(have, LAMBDA a, b :
        \/ Distance(rs, dn, F, i, a) < Distance(rs, dn, F, i, b)
        \/ Distance(rs, dn, F, i, a) = Distance(rs, dn, F, i, b) /\ a < b)

NeighborCount(rs, kd, c) == Min(KNeighbors, Len(Present(rs, kd, c)))

\* The sum of the column's values in the nearest rows: the neighbor mean is
\* this sum over NeighborCount.  (The neighbors are weighted equally.)
NeighborSum(rs, kd, dn, c, i) ==
  LET ds == Donors(rs, kd, dn, c, i)
  IN  SumSeq([k \in 1..NeighborCount(rs, kd, c) |-> rs[ds[k]][c]])

\* The factor by which a column's denominator grows when it is filled.
FillFactor(rs, kd, c) ==
  LET st == Strategy(rs, kd, c)
  IN  IF st = "median" THEN Median(Present(rs, kd, c))[2]
      ELSE IF st = "neighbor" THEN NeighborCount(rs, kd, c)
      ELSE 1

\* The value the Imputer writes in row i of column c.
Fill(rs, kd, dn, c, i) ==
  LET st == Strategy(rs, kd, c)
  IN  IF st = "mode" THEN Mode(Present(rs, kd, c))
      ELSE IF st = "constant" THEN Present(rs, kd, c)[1]
      ELSE IF st = "median" THEN Median(Present(rs, kd, c))[1]
      ELSE NeighborSum(rs, kd, dn, c, i)

\* What the Imputer decides for a column before it writes any cell: the
\* strategy, the factor of the denominator, and the value written in every
\* missing cell when that value is the same for all rows.
ColumnPlan(rs, kd, dn, c) ==
  [ strategy |-> Strategy(rs, kd, c),
    factor |-> FillFactor(rs, kd, c),
    shared |-> IF Strategy(rs, kd, c) \in {"drop", "neighbor"} THEN MissingOf(kd[c])
               ELSE Fill(rs, kd, dn, c, 1) ]

\* Faulty variant: only numeric columns are filled.
ImputedCellNumericOnly(k, v, factor, fill) ==
  IF k # "numeric" THEN v
  ELSE IF v = NaN THEN fill
  ELSE v * factor

\* The cell of a column with missing values after the Imputer: a missing cell
\* takes the fill, a numeric cell moves to the column's new denominator.
ImputedCell(k, v, factor, fill) ==
  IF v = MissingOf(k) THEN fill
  ELSE IF k = "numeric" THEN v * factor
  ELSE v

DroppedColumns(rs, kd) ==
  {c \in ImputedColumns(rs, kd) : Strategy(rs, kd, c) = "drop"}

\* One pass of the Imputer over the working dataset: the decisions are taken
\* once per column, from the dataset as the stage received it.
ImputerPass ==
  \E todo \in {ImputedColumns(rows, kind)} :
  \E gone \in {DroppedColumns(rows, kind)} :
  \E plan \in {[c \in todo |-> ColumnPlan(rows, kind, den, c)]} :
    LET keep == DOMAIN kind \ gone
    IN  /\ rows' = [i \in 1..Len(rows) |->
                      [c \in keep |->
                         IF c \notin todo THEN rows[i][c]
                         ELSE ImputedCell(kind[c], rows[i][c], plan[c].factor,
                                IF plan[c].strategy = "neighbor"
                                THEN Fill(rows, kind, den, c, i)
                                ELSE plan[c].shared)]]
        /\ kind' = [c \in keep |-> kind[c]]
        /\ den' = [c \in keep |->
                     IF c \in todo /\ kind[c] = "numeric"
                     THEN den[c] * plan[c].factor ELSE den[c]]
        /\ report' = [report EXCEPT
             !.decisions = [c \in todo |-> plan[c].strategy],
             !.dropped = gone]

\* Faulty variant: the run goes from the Imputer straight to the
\* FeatureEngineer.
ImputerThenFeatures ==
  /\ pc = "impute"
  /\ UNCHANGED <<ranking, fitted, parked, active, pages>>
  /\ ImputerPass
  /\ pc' = "feature"

Imputer ==
  /\ pc = "impute"
  /\ UNCHANGED <<ranking, fitted, parked, active, pages>>
  /\ ImputerPass
  /\ pc' = "outlier"

(***************************************************************************)
(* 4.4 OutlierHandler                                                      *)
(***************************************************************************)
\* Four times the k-th quartile of the values (k = 1, 3), by linear
\* interpolation between the order statistics around position k(n-1)/4
\* (Series.quantile).
Quartile4(vals, k) ==
  LET s == Sorted(vals)
      n == Len(s)
      lo == (k * (n - 1)) \div 4 + 1
      r == (k * (n - 1)) % 4
  IN  IF r = 0 THEN 4 * s[lo] ELSE 4 * s[lo] + r * (s[lo + 1] - s[lo])

\* Eight times the bounds Q1 - 1.5 IQR and Q3 + 1.5 IQR.
LowerBound8(vals) ==
  2 * Quartile4(vals, 1) - 3 * (Quartile4(vals, 3) - Quartile4(vals, 1))

UpperBound8(vals) ==
  2 * Quartile4(vals, 3) + 3 * (Quartile4(vals, 3) - Quartile4(vals, 1))

\* Faulty variant: only values above the upper bound are capped.
Clip8UpperOnly(v, lo8, hi8) == IF 8 * v > hi8 THEN hi8 ELSE 8 * v

\* Eight times the capped value.
Clip8(v, lo8, hi8) ==
  IF 8 * v < lo8 THEN lo8 ELSE IF 8 * v > hi8 THEN hi8 ELSE 8 * v

\* The columns the OutlierHandler bounds: numeric, no identifier, not the target.
BoundedColumns(rs, kd) == IF rs = <<>> THEN {} ELSE {c \in DOMAIN kd : kd[c] = "numeric"}

OutlierCell(rs, kd, c, i) ==
  IF c \in BoundedColumns(rs, kd)
  THEN Clip8(rs[i][c], LowerBound8(Column(rs, c)), UpperBound8(Column(rs, c)))
  ELSE rs[i][c]

\* Faulty variant: rows holding a value outside the bounds are removed, not capped.
OutlierRowsRemoved(rs, kd) ==
  SelectSeq(rs, LAMBDA r : \A c \in BoundedColumns(rs, kd) :
    /\ 8 * r[c] >= LowerBound8(Column(rs, c))
    /\ 8 * r[c] <= UpperBound8(Column(rs, c)))

\* The rows after the stage: every row is kept, its values capped.
OutlierRows(rs, kd) ==
  [i \in 1..Len(rs) |-> [c \in DOMAIN kd |-> OutlierCell(rs, kd, c, i)]]

\* One pass of the stage over the working dataset.
OutlierPass ==
  LET cols == BoundedColumns(rows, kind)
  IN  /\ rows' = OutlierRows(rows, kind)
      /\ den' = [c \in DOMAIN kind |-> IF c \in cols THEN 8 * den[c] ELSE den[c]]
      /\ report' = [report EXCEPT
           !.bounds = [c \in cols |-> [lower |-> LowerBound8(Column(rows, c)),
                                       upper |-> UpperBound8(Column(rows, c)),
                                       den |-> 8 * den[c]]]]
      /\ kind' = kind

OutlierHandler ==
  /\ pc = "outlier"
  /\ UNCHANGED <<ranking, fitted, parked, active, pages>>
  /\ OutlierPass
  /\ pc' = "feature"

\* handle_outliers() called a second time in succession: quartiles and bounds
\* are computed again, from the capped columns.
OutlierHandlerAgain ==
  /\ pc = "feature"
  /\ UNCHANGED <<ranking, fitted, parked, active, pages>>
  /\ OutlierPass
  /\ pc' = "feature_again"

(***************************************************************************)
(* 4.5 FeatureEngineer                                                     *)
(***************************************************************************)
\* The bracketed age ranges of the raw file, "[a-b)", as <<a, b>>.
AgeRange ==
  [ x \in { "[0-10)", "[10-20)", "[20-30)", "[30-40)", "[40-50)", "[50-60)",
            "[60-70)", "[70-80)", "[80-90)", "[90-100)" } |->
      CASE x = "[0-10)" -> <<0, 10>>   [] x = "[10-20)" -> <<10, 20>>
        [] x = "[20-30)" -> <<20, 30>> [] x = "[30-40)" -> <<30, 40>>
        [] x = "[40-50)" -> <<40, 50>> [] x = "[50-60)" -> <<50, 60>>
        [] x = "[60-70)" -> <<60, 70>> [] x = "[70-80)" -> <<70, 80>>
        [] x = "[80-90)" -> <<80, 90>> [] OTHER -> <<90, 100>> ]

AgeMidpoint(a) == (AgeRange[a][1] + AgeRange[a][2]) \div 2

\* Thresholds of the age groups.
YoungBelow == 30
MiddleBelow == 60

AgeGroup(n) ==
  IF n < YoungBelow THEN "young" ELSE IF n < MiddleBelow THEN "middle" ELSE "senior"

DiagnosisColumns == {"diag_1"}
VisitColumns == {"number_outpatient", "number_emergency", "number_inpatient"}
StayColumn == "time_in_hospital"
ProceduresColumn == "num_procedures"
LabColumn == "num_lab_procedures"
\* Denominator of the lab-procedure efficiency ratio (two decimals).
RatioDen == 100

\* The derived columns, in the order the stage computes them.
DerivationOrder ==
  << "age_numeric", "age_group", "total_medications_changed", "diagnosis_count",
     "service_utilization", "high_risk_patient", "lab_procedures_per_day" >>

\* The columns a derived column reads.
DerivedSources(name) ==
  CASE name = "age_numeric" -> {"age"}
    [] name = "age_group" -> {"age_numeric"}
    [] name = "total_medications_changed" -> MedicationColumns
    [] name = "diagnosis_count" -> DiagnosisColumns
    [] name = "service_utilization" -> VisitColumns
    [] name = "high_risk_patient" -> {StayColumn, ProceduresColumn}
    [] OTHER -> {LabColumn, StayColumn}

DerivedKind(name) == IF name = "age_group" THEN "categorical" ELSE "numeric"

DerivedDen(name, ds) ==
  CASE name = "service_utilization" -> MaxDen(ds.den, VisitColumns)
    [] name = "lab_procedures_per_day" -> RatioDen
    [] OTHER -> 1

\* Whether row i exceeds the column's 75th percentile.
AboveQ3(ds, c, i) == 4 * ds.rows[i][c] > Quartile4(Column(ds.rows, c), 3)

DerivedCell(name, ds, i) ==
  LET r == ds.rows[i]
  IN  CASE name = "age_numeric" -> AgeMidpoint(r["age"])
        [] name = "age_group" -> AgeGroup(r["age_numeric"])
        [] name = "total_medications_changed" ->
             Cardinality({m \in MedicationColumns : r[m] # NoChange})
        [] name = "diagnosis_count" ->
             Cardinality({d \in DiagnosisColumns : r[d] # NA})
        [] name = "service_utilization" ->
             LET L == MaxDen(ds.den, VisitColumns)
                 vs == SetToSeq(VisitColumns)
             IN  SumSeq([k \in 1..Len(vs) |-> r[vs[k]] * (L \div ds.den[vs[k]])])
        [] name = "high_risk_patient" ->
             IF AboveQ3(ds, StayColumn, i) /\ AboveQ3(ds, ProceduresColumn, i)
             THEN 1 ELSE 0
        [] OTHER ->
             IF r[StayColumn] = 0 THEN 0
             ELSE (r[LabColumn] * ds.den[StayColumn] * RatioDen)
                    \div (r[StayColumn] * ds.den[LabColumn])

\* One derivation: the column is added, or, when a column it reads is absent,
\* skipped and recorded as omitted.
Derive(ds, name) ==
  IF ~(DerivedSources(name) \subseteq DOMAIN ds.kind)
  THEN [ds EXCEPT !.omitted = @ \cup {name}]
  ELSE [ rows |-> [i \in 1..Len(ds.rows) |->
                     ds.rows[i] @@ (name :> DerivedCell(name, ds, i))],
         kind |-> ds.kind @@ (name :> DerivedKind(name)),
         den |-> ds.den @@ (name :> DerivedDen(name, ds)),
         omitted |-> ds.omitted,
         derived |-> ds.derived \cup {name} ]

RECURSIVE DeriveAll(_, _)
DeriveAll(ds, order) ==
  IF order = <<>> THEN ds ELSE DeriveAll(Derive(ds, Head(order)), Tail(order))

\* Faulty variant: a derived feature that cannot be computed is fatal.
FeatureEngineerFailing ==
  /\ pc = "feature"
  /\ UNCHANGED <<ranking, fitted, parked, active, pages>>
  /\ LET out == DeriveAll([rows |-> rows, kind |-> kind, den |-> den,
                           omitted |-> {}, derived |-> {}], DerivationOrder)
     IN  IF out.omitted # {}
         THEN /\ pc' = "failed"
              /\ report' = [report EXCEPT !.error = "DataFormatError"]
              /\ UNCHANGED <<rows, kind, den>>
         ELSE /\ rows' = out.rows
              /\ kind' = out.kind
              /\ den' = out.den
              /\ report' = [report EXCEPT !.omitted = out.omitted,
                                          !.derived = out.derived]
              /\ pc' = "encode"


\* Faulty variant: the medication columns are removed once they are counted.
FeatureEngineerDroppingSources ==
  /\ pc = "feature"
  /\ UNCHANGED <<ranking, fitted, parked, active, pages>>
  /\ LET out == DeriveAll([rows |-> rows, kind |-> kind, den |-> den,
                           omitted |-> {}, derived |-> {}], DerivationOrder)
         keep == DOMAIN out.kind \ MedicationColumns
     IN  /\ rows' = [i \in 1..Len(out.rows) |-> [c \in keep |-> out.rows[i][c]]]
         /\ kind' = [c \in keep |-> out.kind[c]]
         /\ den' = [c \in keep |-> out.den[c]]
         /\ report' = [report EXCEPT !.omitted = out.omitted,
                                     !.derived = out.derived]
  /\ pc' = "encode"


FeatureEngineer ==
  /\ pc = "feature"
  /\ UNCHANGED <<ranking, fitted, parked, active, pages>>
  /\ LET out == DeriveAll([rows |-> rows, kind |-> kind, den |-> den,
                           omitted |-> {}, derived |-> {}], DerivationOrder)
     IN  /\ rows' = out.rows
         /\ kind' = out.kind
         /\ den' = out.den
         /\ report' = [report EXCEPT !.omitted = out.omitted,
                                     !.derived = out.derived]
  /\ pc' = "encode"

\* The orders in which the derivation steps can be taken.
DerivationOrders ==
  {[k \in 1..Len(DerivationOrder) |-> DerivationOrder[p[k]]] :
     p \in Permutations(1..Len(DerivationOrder))}

\* The stage with its derivation steps taken in some order.
FeatureEngineerInAnyOrder ==
  /\ pc = "feature"
  /\ UNCHANGED <<ranking, fitted, parked, active, pages>>
  /\ \E order \in DerivationOrders :
       LET out == DeriveAll([rows |-> rows, kind |-> kind, den |-> den,
                             omitted |-> {}, derived |-> {}], order)
       IN  /\ rows' = out.rows
           /\ kind' = out.kind
           /\ den' = out.den
           /\ report' = [report EXCEPT !.omitted = out.omitted,
                                       !.derived = out.derived]
  /\ pc' = "encode"

(***************************************************************************)
(* 4.6 CategoricalEncoder                                                  *)
(***************************************************************************)
\* A column with at most this many distinct values is one-hot encoded.
OneHotMaxCardinality == 10

\* The distinct values of a column in first-encountered order.
FirstSeen(vals) ==
  LET first == SelectSeq(Indices(vals), LAMBDA i : \A j \in 1..(i - 1) : vals[j] # vals[i])
  IN  [k \in 1..Len(first) |-> vals[first[k]]]

\* Faulty variant: a category is coded by the number of rows that carry it.
OrdinalCodeByFrequency(vals, v) == Count(vals, v)

\* The ordinal code of a category: its position in first-encountered order,
\* from 0.
OrdinalCode(vals, v) ==
  (CHOOSE k \in 1..Len(FirstSeen(vals)) : FirstSeen(vals)[k] = v) - 1

\* Faulty variant: a column at the threshold is ordinal-encoded.
EncodingStrategyBelowThreshold(vals) ==
  IF Cardinality(Distinct(vals)) < OneHotMaxCardinality THEN "one-hot" ELSE "ordinal"


EncodingStrategy(vals) ==
  IF Cardinality(Distinct(vals)) <= OneHotMaxCardinality THEN "one-hot" ELSE "ordinal"

\* Names are normalized character by character.  A string of the model is
\* spelled as a sequence of pieces: every uppercase letter and every
\* punctuation character is a piece of its own, a run of lowercase letters,
\* digits and underscores is one piece.  A string that is not listed consists
\* of one such run.
Spelling ==
  "Caucasian" :> << "C", "aucasian" >>
  @@ "AfricanAmerican" :> << "A", "frican", "A", "merican" >>
  @@ "Female" :> << "F", "emale" >>
  @@ "Male" :> << "M", "ale" >>
  @@ "Unknown/Invalid" :> << "U", "nknown", "/", "I", "nvalid" >>
  @@ "No" :> << "N", "o" >>
  @@ "Steady" :> << "S", "teady" >>
  @@ "Up" :> << "U", "p" >>
  @@ "Down" :> << "D", "own" >>
  @@ "<30" :> << "<", "30" >>
  @@ ">30" :> << ">", "30" >>
  @@ "NO" :> << "N", "O" >>
  @@ "<NA>" :> << "<", "N", "A", ">" >>
  @@ "Unknown" :> << "U", "nknown" >>
  @@ "glyburide-metformin" :> << "glyburide", "-", "metformin" >>
  @@ "glipizide-metformin" :> << "glipizide", "-", "metformin" >>
  @@ "glimepiride-pioglitazone" :> << "glimepiride", "-", "pioglitazone" >>
  @@ "metformin-rosiglitazone" :> << "metformin", "-", "rosiglitazone" >>
  @@ "metformin-pioglitazone" :> << "metformin", "-", "pioglitazone" >>
  @@ "[0-10)" :> << "[", "0", "-", "10", ")" >>
  @@ "[10-20)" :> << "[", "10", "-", "20", ")" >>
  @@ "[20-30)" :> << "[", "20", "-", "30", ")" >>
  @@ "[30-40)" :> << "[", "30", "-", "40", ")" >>
  @@ "[40-50)" :> << "[", "40", "-", "50", ")" >>
  @@ "[50-60)" :> << "[", "50", "-", "60", ")" >>
  @@ "[60-70)" :> << "[", "60", "-", "70", ")" >>
  @@ "[70-80)" :> << "[", "70", "-", "80", ")" >>
  @@ "[80-90)" :> << "[", "80", "-", "90", ")" >>
  @@ "[90-100)" :> << "[", "90", "-", "100", ")" >>

Spell(s) == IF s \in DOMAIN Spelling THEN Spelling[s] ELSE <<s>>

Lowercase ==
  [ A |-> "a", B |-> "b", C |-> "c", D |-> "d", E |-> "e", F |-> "f",
    G |-> "g", H |-> "h", I |-> "i", J |-> "j", K |-> "k", L |-> "l",
    M |-> "m", N |-> "n", O |-> "o", P |-> "p", Q |-> "q", R |-> "r",
    S |-> "s", T |-> "t", U |-> "u", V |-> "v", W |-> "w", X |-> "x",
    Y |-> "y", Z |-> "z" ]

\* Characters that become the word separator, and characters that are removed.
WordBreaks == {" ", "-", "/"}
Punctuation == {"<", ">", "[", "]", "(", ")", "?", ".", ",", "'"}

NormalizedPiece(p) ==
  IF p \in DOMAIN Lowercase THEN Lowercase[p]
  ELSE IF p \in WordBreaks THEN "_"
  ELSE IF p \in Punctuation THEN ""
  ELSE p

RECURSIVE NormalizedName(_)
NormalizedName(pieces) ==
  IF pieces = <<>> THEN ""
  ELSE NormalizedPiece(Head(pieces)) \o NormalizedName(Tail(pieces))

\* The name of the indicator column of a category: the column name and the
\* category joined by the word separator, normalized to lowercase without
\* punctuation.
OneHotName(c, v) == NormalizedName(Spell(c) \o <<"_">> \o Spell(v))

\* The EncodingPlan of a column, fitted on its values: the strategy and the
\* mapping of each category to its code (ordinal) or indicator column (one-hot).
EncodingPlan(c, vals) ==
  [ strategy |-> EncodingStrategy(vals),
    mapping |-> [v \in Distinct(vals) |->
                   IF EncodingStrategy(vals) = "ordinal"
                   THEN OrdinalCode(vals, v) ELSE OneHotName(c, v)] ]

\* Faulty variant: only the categorical columns of the raw schema are encoded.
CategoricalColumnsRawOnly(kd) ==
  {c \in DOMAIN kd \cap DOMAIN RawKind : kd[c] = "categorical"}


CategoricalColumns(kd) == {c \in DOMAIN kd : kd[c] = "categorical"}

OrdinalColumns(plans) == {c \in DOMAIN plans : plans[c].strategy = "ordinal"}
OneHotColumns(plans) == {c \in DOMAIN plans : plans[c].strategy = "one-hot"}

IndicatorColumns(plans) ==
  UNION {{plans[c].mapping[v] : v \in DOMAIN plans[c].mapping} : c \in OneHotColumns(plans)}

\* The columns after encoding: every categorical column is replaced.
EncodedSchema(kd, plans) ==
  (DOMAIN kd \ CategoricalColumns(kd)) \cup OrdinalColumns(plans)
    \cup IndicatorColumns(plans)

\* The value of column x in the encoded form of row r.
EncodedCell(r, kd, plans, x) ==
  IF x \in DOMAIN kd /\ kd[x] # "categorical" THEN r[x]
  ELSE IF x \in OrdinalColumns(plans) THEN plans[x].mapping[r[x]]
  ELSE IF \E c \in OneHotColumns(plans) : plans[c].mapping[r[c]] = x THEN 1
  ELSE 0

CategoricalEncoder ==
  /\ pc = "encode"
  /\ UNCHANGED <<ranking, fitted, parked, active, pages>>
  /\ LET plans == [c \in CategoricalColumns(kind) |->
                     EncodingPlan(c, Column(rows, c))]
         schema == EncodedSchema(kind, plans)
     IN  /\ rows' = [i \in 1..Len(rows) |->
                      [x \in schema |-> EncodedCell(rows[i], kind, plans, x)]]
         /\ kind' = [x \in schema |->
                      IF x \in DOMAIN kind /\ kind[x] # "categorical"
                      THEN kind[x] ELSE "numeric"]
         /\ den' = [x \in schema |->
                      IF x \in DOMAIN kind /\ kind[x] # "categorical"
                      THEN den[x] ELSE 1]
         /\ report' = [report EXCEPT !.plans = plans]
  /\ pc' = "rank"

(***************************************************************************)
(* 4.7 ImportanceRanker                                                    *)
(***************************************************************************)
\* The fewest rows the estimators are fitted on.
MinRankRows == 50
\* The number of trees of the forest.
NumTrees == 2
\* The largest mutual-information score of a feature.
MaxRawScore == 1

NoRanking == [error |-> "none", order |-> <<>>]
Unfitted == [trees |-> <<>>, mi |-> <<>>, flat |-> "unknown"]

\* The feature columns: every column but the identifier and the target.
Features(kd) == {c \in DOMAIN kd : kd[c] \notin {"identifier", "target"}}

\* Column names in natural order.
NaturalOrder ==
  << "age_numeric", "diagnosis_count", "num_lab_procedures", "num_procedures",
     "service_utilization", "time_in_hospital", "weight" >>

NameBefore(a, b) ==
  (CHOOSE k \in 1..Len(NaturalOrder) : NaturalOrder[k] = a)
    < (CHOOSE k \in 1..Len(NaturalOrder) : NaturalOrder[k] = b)

\* Faulty variant: a dataset of exactly the minimum size is refused.
InsufficientDataAtThreshold(rs) ==
  \/ Len(rs) <= MinRankRows
  \/ Cardinality({rs[i][TargetColumn] : i \in 1..Len(rs)}) < 2


InsufficientData(rs) ==
  \/ Len(rs) < MinRankRows
  \/ Cardinality({rs[i][TargetColumn] : i \in 1..Len(rs)}) < 2

\* What the estimators can return on a dataset with features F: the importances
\* of each tree (fitted with the seed of its index; 1 for a feature the tree
\* splits on, 0 otherwise), the mutual information of each feature, and what
\* the build's normalization yields on a score set whose values are all equal
\* (0/0): zero, or an undefined value.
FitChoices(F) ==
  [ trees : [1..NumTrees -> [F -> {0, 1}]],
    mi : [F -> 0..MaxRawScore],
    flat : {"zero", "undefined"} ]

\* The orders in which the trees can finish.
FinishOrders == {o \in [1..NumTrees -> 1..NumTrees] : \A i, j \in 1..NumTrees : o[i] = o[j] => i = j}

\* Faulty variant: a tree's importances weigh by the position at which it
\* finished.
ForestImportanceByArrival(trs, finish, f) ==
  SumSeq([k \in 1..Len(finish) |-> k * trs[finish[k]][f]])

\* The forest's importance of feature f: the trees' importances accumulated.
ForestImportance(trs, finish, f) ==
  SumSeq([k \in 1..Len(finish) |-> trs[finish[k]][f]])

\* Min-max normalization of raw[f] across the features F, as a fraction.
Normalized(raw, F, f, flat) ==
  LET lo == CHOOSE x \in {raw[g] : g \in F} : \A g \in F : x <= raw[g]
      hi == CHOOSE x \in {raw[g] : g \in F} : \A g \in F : raw[g] <= x
  IN  IF hi # lo THEN [num |-> raw[f] - lo, den |-> hi - lo]
      ELSE IF flat = "zero" THEN [num |-> 0, den |-> 1]
      ELSE [num |-> NaN, den |-> 1]

\* Faulty variant: the combined score is the sum of the two normalized scores.
CombinedSum(a, b) ==
  IF a.num = NaN \/ b.num = NaN THEN [num |-> NaN, den |-> 1]
  ELSE [num |-> a.num * b.den + b.num * a.den, den |-> a.den * b.den]

\* The unweighted average of two normalized scores.
Combined(a, b) ==
  IF a.num = NaN \/ b.num = NaN THEN [num |-> NaN, den |-> 1]
  ELSE [num |-> a.num * b.den + b.num * a.den, den |-> 2 * a.den * b.den]

\* Score x is greater than score y; an undefined score is below every other.
ScoreAbove(x, y) ==
  IF x.num = NaN THEN FALSE
  ELSE IF y.num = NaN THEN TRUE
  ELSE x.num * y.den > y.num * x.den

ScoreEqual(x, y) ==
  IF x.num = NaN \/ y.num = NaN THEN x.num = y.num
  ELSE x.num * y.den = y.num * x.den

\* Faulty variant: of equal scores the name that comes last is ranked first.
RankedBeforeNamesReversed(score, a, b) ==
  \/ ScoreAbove(score[a], score[b])
  \/ ScoreEqual(score[a], score[b]) /\ NameBefore(b, a)

\* Feature a is ranked before feature b: higher combined score first, of equal
\* scores the name that comes first.
RankedBefore(score, a, b) ==
  \/ ScoreAbove(score[a], score[b])
  \/ ScoreEqual(score[a], score[b]) /\ NameBefore(a, b)

\* The ranking: {column, score, rank} in rank order, with both normalized
\* scores recorded.
RankingOf(F, forest, mi, flat) ==
  LET score == [f \in F |-> Combined(Normalized(forest, F, f, flat),
                                     Normalized(mi, F, f, flat))]
      sorted == SortSeq(SetToSeq(F), LAMBDA a, b : RankedBefore(score, a, b))
  IN  [k \in 1..Len(sorted) |->
         [ column |-> sorted[k], score |-> score[sorted[k]], rank |-> k,
           forest |-> Normalized(forest, F, sorted[k], flat),
           mi |-> Normalized(mi, F, sorted[k], flat) ]]

\* One execution of the ranker.  fitted is the estimators' output on this
\* dataset with this seed: it is drawn when they are first fitted and is the
\* same whenever they are fitted again on the same input with the same seed.
RankerPass ==
  /\ UNCHANGED <<rows, kind, den, report, parked, active, pages>>
  /\ IF InsufficientData(rows)
     THEN /\ ranking' = [error |-> "InsufficientDataError", order |-> <<>>]
          /\ fitted' = fitted
     ELSE \E fit \in (IF fitted = Unfitted THEN FitChoices(Features(kind)) ELSE {fitted}) :
          \E finish \in FinishOrders :
            /\ fitted' = fit
            /\ ranking' =
                 [ error |-> "none",
                   order |-> RankingOf(Features(kind),
                               [f \in Features(kind) |-> ForestImportance(fit.trees, finish, f)],
                               fit.mi, fit.flat) ]

ImportanceRanker ==
  /\ pc = "rank"
  /\ RankerPass
  /\ pc' = "done"

\* calculate_feature_importance() called a second time on the same input with
\* the same seed; the trees may finish in another order.
ImportanceRankerAgain ==
  /\ pc = "done"
  /\ RankerPass
  /\ pc' = "done_again"

(***************************************************************************)
(* The pages of the web application: CommunicationPage, SignupPage and     *)
(* SettingsPage.  The message a user types is a sequence of characters.    *)
(***************************************************************************)
MaxInput == 3
MaxAlerts == 2
MaxVisits == 2
MaxSubmits == 2

\* All sequences over S of length at most n.
RECURSIVE TextsUpTo(_, _)
TextsUpTo(S, n) ==
  IF n = 0 THEN {<<>>}
  ELSE LET shorter == TextsUpTo(S, n - 1)
       IN  shorter \cup {Append(t, ch) : t \in shorter, ch \in S}

\* String.prototype.trim: the text without its leading and trailing spaces.
RECURSIVE TrimStart(_)
TrimStart(text) ==
  IF text # <<>> /\ Head(text) = " " THEN TrimStart(Tail(text)) ELSE text

RECURSIVE TrimEnd(_)
TrimEnd(text) ==
  IF text # <<>> /\ text[Len(text)] = " "
  THEN TrimEnd(SubSeq(text, 1, Len(text) - 1))
  ELSE text

Trim(text) == TrimEnd(TrimStart(text))

(***************************************************************************)
(* CommunicationPage.                                                      *)
(***************************************************************************)
\* useState<any>(null).
Null == [null |-> TRUE]

skyElectroChats ==
  << [id |-> 1, name |-> "Michael Chen", company |-> "TechMart Electronics",
      avatar |-> "MC",
      lastMessage |-> "Thanks for the product demo! When can we discuss pricing?",
      time |-> "2 min ago", unread |-> 2, status |-> "online", type |-> "whatsapp"],
     [id |-> 2, name |-> "Sarah Wilson", company |-> "Digital Solutions Co",
      avatar |-> "SW",
      lastMessage |-> "I need the technical specifications for the new processors",
      time |-> "1 hour ago", unread |-> 0, status |-> "offline", type |-> "email"],
     [id |-> 3, name |-> "David Rodriguez", company |-> "Future Electronics",
      avatar |-> "DR",
      lastMessage |-> "Can we schedule a call for next week?",
      time |-> "3 hours ago", unread |-> 1, status |-> "online", type |-> "linkedin"] >>

healthPlusChats ==
  << [id |-> 1, name |-> "Dr. Lisa Martinez", company |-> "Metro General Hospital",
      avatar |-> "LM",
      lastMessage |-> "The clinical trial results look promising. Let's discuss implementation.",
      time |-> "15 min ago", unread |-> 1, status |-> "online", type |-> "whatsapp"],
     [id |-> 2, name |-> "Dr. James Park", company |-> "Community Health Center",
      avatar |-> "JP",
      lastMessage |-> "I'll review the patient data and get back to you tomorrow",
      time |-> "2 hours ago", unread |-> 0, status |-> "offline", type |-> "email"],
     [id |-> 3, name |-> "Dr. Rebecca Kumar", company |-> "Family Medicine Group",
      avatar |-> "RK",
      lastMessage |-> "Thanks for the educational materials. Very helpful!",
      time |-> "1 day ago", unread |-> 0, status |-> "online", type |-> "phone"] >>

\* The two TabsTrigger values.
Tabs == {"skyelectro", "healthplus"}

\* The contacts of the ContactList inside the TabsContent of a tab; only the
\* active tab's content is rendered.
ContactsOf(tab) == IF tab = "skyelectro" THEN skyElectroChats ELSE healthPlusChats

ContactList == ContactsOf(activeTab)

\* className of a contact's entry: the entry is drawn as selected.
Highlighted(contact) == selectedContact # Null /\ selectedContact.id = contact.id

\* The avatar colour of a business in the contact list.
AvatarColour(businessType) ==
  IF businessType = "skyelectro" THEN "bg-blue-500" ELSE "bg-green-500"

\* The avatar colour of the chat header; the chat area is rendered when a
\* contact is selected.
HeaderColour == IF activeTab = "skyelectro" THEN "bg-blue-500" ELSE "bg-green-500"

\* The messages of the conversation the chat area shows.
messages ==
  IF selectedContact # Null
  THEN << [id |-> 1, sender |-> "other", content |-> selectedContact.lastMessage,
           time |-> selectedContact.time, type |-> "text"],
          [id |-> 2, sender |-> "me",
           content |-> "I'd be happy to help with that. Let me send you the details.",
           time |-> "1 min ago", type |-> "text"] >>
  ELSE <<>>

\* onClick of an entry of the visible contact list.
setSelectedContact ==
  /\ \E k \in DOMAIN ContactList : selectedContact' = ContactList[k]
  /\ UNCHANGED <<activeTab, messageInput>>
  /\ UNCHANGED <<pipeline, signup, settings, alerts>>

\* onValueChange of the Tabs: the user picks the other tab.
setActiveTab ==
  /\ \E tab \in Tabs \ {activeTab} : activeTab' = tab
  /\ UNCHANGED <<selectedContact, messageInput>>
  /\ UNCHANGED <<pipeline, signup, settings, alerts>>

\* onChange of the message input, which the chat area holds.
setMessageInput ==
  /\ selectedContact # Null
  /\ \E text \in TextsUpTo({" ", "a"}, MaxInput) : messageInput' = text
  /\ UNCHANGED <<activeTab, selectedContact>>
  /\ UNCHANGED <<pipeline, signup, settings, alerts>>

\* The send button or the Enter key.
handleSendMessage ==
  /\ selectedContact # Null
  /\ IF Trim(messageInput) # <<>>
     THEN messageInput' = <<>>
     ELSE messageInput' = messageInput
  /\ UNCHANGED <<activeTab, selectedContact>>
  /\ UNCHANGED <<pipeline, signup, settings, alerts>>

CommunicationInitial ==
  /\ activeTab = "skyelectro"
  /\ selectedContact = Null
  /\ messageInput = <<>>

(***************************************************************************)
(* SignupPage.                                                             *)
(***************************************************************************)
InitialFormData ==
  [name |-> "", email |-> "", password |-> "", confirmPassword |-> "",
   businessType |-> ""]

\* What a user enters into each field of the form; a field can also be
\* emptied again.
FieldValues ==
  [name |-> {"Ann"}, email |-> {"ann@example.com"}, password |-> {"a", "b"},
   confirmPassword |-> {"a", "b"}, businessType |-> {"skyelectro"}]

\* The inputs of the form that carry the required attribute and are part of
\* formData; the browser does not submit the form while one of them is empty.
RequiredFields == {"name", "email", "password", "confirmPassword"}

\* onChange of an input of the form.
setFormData ==
  /\ route = "/signup"
  /\ \E field \in DOMAIN FieldValues :
       \E value \in FieldValues[field] \cup {""} :
         formData' = [formData EXCEPT ![field] = value]
  /\ UNCHANGED <<route, instance, isLoading, timers, pushes, submits>>
  /\ UNCHANGED <<pipeline, communication, settings, alerts>>

\* handleSubmit without the early return: the alert is shown and the signup
\* goes on.
handleSubmitGoingOn ==
  /\ submits' = [total |-> submits.total + 1,
                 accepted |-> submits.accepted +
                   (IF formData.password = formData.confirmPassword THEN 1 ELSE 0)]
  /\ alerts' = IF formData.password # formData.confirmPassword
               THEN Append(alerts, "Passwords do not match")
               ELSE alerts
  /\ isLoading' = TRUE
  /\ timers' = Append(timers, instance)
  /\ UNCHANGED <<route, instance, formData, pushes>>

\* handleSubmit that starts the timer and leaves isLoading as it is.
handleSubmitNotLoading ==
  /\ submits' = [total |-> submits.total + 1,
                 accepted |-> submits.accepted +
                   (IF formData.password = formData.confirmPassword THEN 1 ELSE 0)]
  /\ IF formData.password # formData.confirmPassword
     THEN /\ alerts' = Append(alerts, "Passwords do not match")
          /\ UNCHANGED <<isLoading, timers>>
     ELSE /\ timers' = Append(timers, instance)
          /\ UNCHANGED <<isLoading, alerts>>
  /\ UNCHANGED <<route, instance, formData, pushes>>

\* handleSubmit: setTimeout puts a callback of this instance into the
\* browser's timer queue.
handleSubmit ==
  /\ submits' = [total |-> submits.total + 1,
                 accepted |-> submits.accepted +
                   (IF formData.password = formData.confirmPassword THEN 1 ELSE 0)]
  /\ IF formData.password # formData.confirmPassword
     THEN /\ alerts' = Append(alerts, "Passwords do not match")
          /\ UNCHANGED <<isLoading, timers>>
     ELSE /\ isLoading' = TRUE
          /\ timers' = Append(timers, instance)
          /\ UNCHANGED alerts
  /\ UNCHANGED <<route, instance, formData, pushes>>

\* The submit button (disabled while isLoading) or the Enter key in a field
\* submits the form once the required fields are filled in.
onSubmit ==
  /\ route = "/signup"
  /\ ~isLoading
  /\ \A field \in RequiredFields : formData[field] # ""
  /\ submits.total < MaxSubmits
  /\ handleSubmit
  /\ UNCHANGED <<pipeline, communication, settings>>

\* The callback handed to setTimeout.  All timers wait equally long, so they
\* fire in the order they were started; setIsLoading reaches the instance
\* that started the timer.
setTimeoutCallback ==
  /\ timers # <<>>
  /\ timers' = Tail(timers)
  /\ isLoading' = IF Head(timers) = instance THEN FALSE ELSE isLoading
  /\ pushes' = Append(pushes, "/dashboard")
  /\ route' = "/dashboard"
  /\ UNCHANGED <<instance, formData, submits>>
  /\ UNCHANGED <<pipeline, communication, settings, alerts>>

\* The links back to the landing page.
BackToHome ==
  /\ route \in {"/signup", "/dashboard"}
  /\ route' = "/"
  /\ UNCHANGED <<instance, formData, isLoading, timers, pushes, submits>>
  /\ UNCHANGED <<pipeline, communication, settings, alerts>>

\* The landing page's link to /signup mounts SignupPage anew.
MountSignupPage ==
  /\ route = "/"
  /\ instance < MaxVisits
  /\ route' = "/signup"
  /\ instance' = instance + 1
  /\ formData' = InitialFormData
  /\ isLoading' = FALSE
  /\ UNCHANGED <<timers, pushes, submits>>
  /\ UNCHANGED <<pipeline, communication, settings, alerts>>

SignupInitial ==
  /\ route = "/signup"
  /\ instance = 1
  /\ formData = InitialFormData
  /\ isLoading = FALSE
  /\ timers = <<>>
  /\ pushes = <<>>
  /\ submits = [total |-> 0, accepted |-> 0]

(***************************************************************************)
(* SettingsPage.                                                           *)
(***************************************************************************)
InitialProfileData ==
  [name |-> "Sarah Johnson", email |-> "sarah.johnson@skycrm.com",
   phone |-> "+1 (555) 123-4567", timezone |-> "America/Los_Angeles",
   language |-> "en"]

InitialPreferences ==
  [enableGeoOptimization |-> TRUE, showAIScores |-> TRUE,
   autoScheduleSuggestions |-> TRUE, realTimeNotifications |-> TRUE,
   emailDigest |-> TRUE, mobileAlerts |-> TRUE, leadScoreThreshold |-> 80,
   routeOptimization |-> TRUE, weatherAlerts |-> FALSE, trafficUpdates |-> TRUE]

\* What a user enters into the fields of the profile form, the switches a
\* user flips, and what a user types into a password field.
ProfileValues == [name |-> {"Sarah Johnson", "Sarah J."}, language |-> {"en", "es"}]
Switches == {"showAIScores", "weatherAlerts"}
Passwords == {"", "a", "b"}

\* onChange / onValueChange of a field of the profile form.
setProfileData ==
  /\ \E field \in DOMAIN ProfileValues :
       \E value \in ProfileValues[field] :
         profileData' = [profileData EXCEPT ![field] = value]
  /\ UNCHANGED <<preferences, showPassword, currentPassword, newPassword,
                 confirmPassword, alerts>>
  /\ UNCHANGED <<pipeline, communication, signup>>

\* onCheckedChange of a switch.
setPreferences ==
  /\ \E field \in Switches :
       \E checked \in {~preferences[field]} :
         preferences' = [preferences EXCEPT ![field] = checked]
  /\ UNCHANGED <<profileData, showPassword, currentPassword, newPassword,
                 confirmPassword, alerts>>
  /\ UNCHANGED <<pipeline, communication, signup>>

\* The eye button of the current-password field.
setShowPassword ==
  /\ showPassword' = ~showPassword
  /\ UNCHANGED <<profileData, preferences, currentPassword, newPassword,
                 confirmPassword, alerts>>
  /\ UNCHANGED <<pipeline, communication, signup>>

setCurrentPassword ==
  /\ \E value \in Passwords : currentPassword' = value
  /\ UNCHANGED <<profileData, preferences, showPassword, newPassword,
                 confirmPassword, alerts>>
  /\ UNCHANGED <<pipeline, communication, signup>>

setNewPassword ==
  /\ \E value \in Passwords : newPassword' = value
  /\ UNCHANGED <<profileData, preferences, showPassword, currentPassword,
                 confirmPassword, alerts>>
  /\ UNCHANGED <<pipeline, communication, signup>>

setConfirmPassword ==
  /\ \E value \in Passwords : confirmPassword' = value
  /\ UNCHANGED <<profileData, preferences, showPassword, currentPassword,
                 newPassword, alerts>>
  /\ UNCHANGED <<pipeline, communication, signup>>

handleSaveProfile ==
  /\ Len(alerts) < MaxAlerts
  /\ alerts' = Append(alerts, "Profile settings saved successfully!")
  /\ UNCHANGED <<settings, pipeline, communication, signup>>

handleSavePreferences ==
  /\ Len(alerts) < MaxAlerts
  /\ alerts' = Append(alerts, "Preferences saved successfully!")
  /\ UNCHANGED <<settings, pipeline, communication, signup>>

\* handleChangePassword that clears the three fields before it compares them.
handleChangePasswordClearingFirst ==
  /\ Len(alerts) < MaxAlerts
  /\ alerts' = Append(alerts, IF newPassword # confirmPassword
                              THEN "New passwords do not match!"
                              ELSE "Password changed successfully!")
  /\ currentPassword' = ""
  /\ newPassword' = ""
  /\ confirmPassword' = ""
  /\ UNCHANGED <<profileData, preferences, showPassword>>
  /\ UNCHANGED <<pipeline, communication, signup>>

handleChangePassword ==
  /\ Len(alerts) < MaxAlerts
  /\ IF newPassword # confirmPassword
     THEN /\ alerts' = Append(alerts, "New passwords do not match!")
          /\ UNCHANGED <<currentPassword, newPassword, confirmPassword>>
     ELSE /\ alerts' = Append(alerts, "Password changed successfully!")
          /\ currentPassword' = ""
          /\ newPassword' = ""
          /\ confirmPassword' = ""
  /\ UNCHANGED <<profileData, preferences, showPassword>>
  /\ UNCHANGED <<pipeline, communication, signup>>

SettingsInitial ==
  /\ profileData = InitialProfileData
  /\ preferences = InitialPreferences
  /\ showPassword = FALSE
  /\ currentPassword = ""
  /\ newPassword = ""
  /\ confirmPassword = ""

\* Every page as its component function constructs it, and no alert shown.
PagesInitial ==
  /\ CommunicationInitial
  /\ SignupInitial
  /\ SettingsInitial
  /\ alerts = <<>>

(***************************************************************************)
(* Raw datasets of the pipeline specification.                             *)
(***************************************************************************)
BaseRow ==
  [ encounter_id |-> 1, race |-> "Caucasian", gender |-> "Female",
    age |-> "[50-60)", weight |-> 80, discharge_disposition_id |-> "1",
    time_in_hospital |-> 3, num_lab_procedures |-> 40, num_procedures |-> 1,
    number_outpatient |-> 0, number_emergency |-> 0, number_inpatient |-> 0,
    diag_1 |-> "250", metformin |-> "No", insulin |-> "No",
    readmitted |-> "NO" ]
  @@ [m \in MedicationColumns |-> NoChange]

RawRowChoices ==
  { BaseRow,
    \* the same encounter as BaseRow, differing in other columns
    [BaseRow EXCEPT !.weight = NaN, !.readmitted = "<30", !.insulin = "Up"],
    [BaseRow EXCEPT !.encounter_id = 2, !.gender = "Male", !.race = Sentinel,
                    !.age = "[70-80)", !.time_in_hospital = 9,
                    !.num_lab_procedures = 60, !.num_procedures = 5,
                    !.number_outpatient = 2, !.readmitted = "<30"],
    [BaseRow EXCEPT !.encounter_id = 3, !.discharge_disposition_id = "11"],
    [BaseRow EXCEPT !.encounter_id = 4, !.gender = UnknownGender],
    [BaseRow EXCEPT !.encounter_id = 5, !.race = "AfricanAmerican",
                    !.weight = NaN, !.time_in_hospital = 14,
                    !.num_lab_procedures = 120, !.number_inpatient = 3,
                    !.diag_1 = Sentinel, !.metformin = "Steady",
                    !.readmitted = ">30"],
    [BaseRow EXCEPT !.encounter_id = 6, !.race = Sentinel, !.weight = 60,
                    !.age = "[20-30)", !.time_in_hospital = 0,
                    !.number_emergency = 1],
    [BaseRow EXCEPT !.encounter_id = 7, !.readmitted = Sentinel] }

RECURSIVE SeqsUpTo(_, _)
SeqsUpTo(S, n) ==
  IF n = 0 THEN {<<>>}
  ELSE LET shorter == SeqsUpTo(S, n - 1)
       IN  shorter \cup {Append(s, x) : s \in {t \in shorter : Len(t) = n - 1}, x \in S}

RawDatasets == SeqsUpTo(RawRowChoices, MaxRows)

\* A dataset of n encounters whose diagnosis codes are pairwise distinct; the
\* second encounter ended in hospice and the first has an extreme lab count.
WideDataset(n) ==
  [i \in 1..n |->
     [BaseRow EXCEPT !.encounter_id = 10 + i, !.diag_1 = ToString(250 + i),
                     !.readmitted = IF i % 3 = 0 THEN "<30" ELSE "NO",
                     !.discharge_disposition_id = IF i = 2 THEN "11" ELSE "1",
                     !.num_lab_procedures = IF i = 1 THEN 120 ELSE 40 + 10 * (i % 3)]]

WideDatasets ==
  {WideDataset(n) : n \in (OneHotMaxCardinality + 1)..(OneHotMaxCardinality + 2)}

Init ==
  /\ rows \in RawDatasets \cup WideDatasets
  /\ kind = RawKind
  /\ den = [c \in DOMAIN RawKind |-> 1]
  /\ report = EmptyReport
  /\ ranking = NoRanking
  /\ fitted = Unfitted
  /\ parked = <<>>
  /\ active = 1
  /\ PagesInitial
  /\ pc = "clean"

Next ==
  \/ Cleaner
  \/ TargetDeriver
  \/ Imputer
  \/ OutlierHandler
  \/ FeatureEngineer
  \/ CategoricalEncoder
  \/ ImportanceRanker

\* run(rawDataset): the stages in sequence over raw datasets.
Spec == Init /\ [][Next]_vars

(***************************************************************************)
(* Properties of run().                                                    *)
(***************************************************************************)
AfterCleaner == pc \in {"target", "impute", "outlier", "feature", "encode", "rank", "done"}
AfterImputer == pc \in {"outlier", "feature", "encode", "rank", "done"}
Processed == pc \in {"rank", "done"}

\* C1: once the Imputer has run, and so in the processed dataset, no column
\* holds a missing value in any row.
C1_NoMissingValues ==
  AfterImputer =>
    \A i \in 1..Len(rows) : \A c \in DOMAIN kind : rows[i][c] # MissingOf(kind[c])

\* A run has completed in which the Imputer dropped one column and filled another.
C1_Witness ==
  /\ Processed
  /\ Len(rows) > 1
  /\ report.dropped # {}
  /\ \E c \in DOMAIN report.decisions : report.decisions[c] = "mode"

\* C2: the TargetDeriver writes 1 exactly in the rows whose readmission status
\* is "<30" and 0 in the others, and the target column holds only 0 and 1, the
\* same in every row, through every later stage.
C2_BinaryTarget ==
  /\ [][pc = "target" /\ pc' = "impute" =>
          \A i \in 1..Len(rows) :
            /\ rows[i][StatusColumn] = "<30" => rows'[i][TargetColumn] = 1
            /\ rows[i][StatusColumn] \in {">30", "NO"} => rows'[i][TargetColumn] = 0]_vars
  /\ [][AfterImputer' =>
          /\ Len(rows') = Len(rows)
          /\ \A i \in 1..Len(rows) : rows'[i][TargetColumn] = rows[i][TargetColumn]]_vars
  /\ [](TargetColumn \in DOMAIN kind =>
          /\ den[TargetColumn] = 1
          /\ \A i \in 1..Len(rows) : rows[i][TargetColumn] \in {0, 1})

\* A processed dataset holds rows of both classes.
C2_Witness ==
  /\ Processed
  /\ \E i \in 1..Len(rows) : rows[i][TargetColumn] = 1
  /\ \E i \in 1..Len(rows) : rows[i][TargetColumn] = 0

\* C3: after the Cleaner, and in the output, no encounter identifier appears in
\* two rows, also when the raw rows sharing it differed in another column.
C3_UniqueEncounters ==
  AfterCleaner =>
    \A i, j \in 1..Len(rows) : i # j => rows[i][IdColumn] # rows[j][IdColumn]

\* A run has completed whose raw dataset held two rows with one encounter
\* identifier that were not exact duplicates.
C3_Witness ==
  /\ Processed
  /\ Len(rows) > 0
  /\ report.removed.duplicate_encounters > 0

\* C4: from the end of the Cleaner on, the row count is the raw row count less
\* the Cleaner's removals: no later stage adds or removes a row.
C4_RowCountKept ==
  AfterCleaner =>
    Len(rows) = report.raw_rows - ( report.removed.duplicates
                                    + report.removed.expired_hospice
                                    + report.removed.unknown_gender
                                    + report.removed.duplicate_encounters )

\* A run has completed in which the Cleaner removed rows and the OutlierHandler
\* capped a value.
C4_Witness ==
  /\ Processed
  /\ Len(rows) > 0
  /\ Len(rows) < report.raw_rows
  /\ \E i \in 1..Len(rows) :
       /\ rows[i][LabColumn] = report.bounds[LabColumn].upper
       /\ \A j \in 1..Len(rows) : j # i => rows[j][LabColumn] < rows[i][LabColumn]

MaxOutlierRows == 5
OutlierValues == {-25, 10, 20, 30, 75}

OutlierDatasets ==
  {[i \in 1..Len(vs) |-> [encounter_id |-> i, time_in_hospital |-> vs[i]]] :
     vs \in SeqsUpTo(OutlierValues, MaxOutlierRows) \ {<<>>}}

InitOutlier ==
  /\ rows \in OutlierDatasets
  /\ kind = [encounter_id |-> "identifier", time_in_hospital |-> "numeric"]
  /\ den = [encounter_id |-> 1, time_in_hospital |-> 1]
  /\ report = EmptyReport
  /\ ranking = NoRanking
  /\ fitted = Unfitted
  /\ parked = <<>>
  /\ active = 1
  /\ PagesInitial
  /\ pc = "outlier"

NextOutlier == OutlierHandler \/ OutlierHandlerAgain

SpecOutlier == InitOutlier /\ [][NextOutlier]_vars

(***************************************************************************)
(* Properties of the OutlierHandler.                                       *)
(***************************************************************************)
\* C5: running the OutlierHandler a second time in succession, its quartiles
\* and bounds computed again from the capped columns, changes no value.
C5_Idempotent ==
  [][pc = "feature" /\ pc' = "feature_again" =>
       \A i \in 1..Len(rows) : \A c \in DOMAIN kind :
         rows'[i][c] * den[c] = rows[i][c] * den'[c]]_vars

\* C6: with Q1 and Q3 the quartiles of a numeric column before the stage, every
\* value after it lies in [Q1 - 1.5 IQR, Q3 + 1.5 IQR]: a value below the lower
\* bound has become the lower bound, a value above the upper bound the upper
\* bound, a value inside is unchanged; with Q1 = 10 and Q3 = 30, 75 becomes 60
\* and -25 becomes -20.  (Cells after the stage are in eighths of the units
\* before it.)
C6_ClippedToBounds ==
  [][pc = "outlier" =>
       \A c \in {x \in DOMAIN kind : kind[x] = "numeric"} :
         LET col == Column(rows, c)
             q1 == Quartile4(col, 1)
             q3 == Quartile4(col, 3)
             lo8 == 2 * q1 - 3 * (q3 - q1)
             hi8 == 2 * q3 + 3 * (q3 - q1)
         IN  /\ den'[c] = 8 * den[c]
             /\ Len(rows') = Len(rows)
             /\ \A i \in 1..Len(rows) :
                  /\ lo8 <= rows'[i][c] /\ rows'[i][c] <= hi8
                  /\ 8 * rows[i][c] < lo8 => rows'[i][c] = lo8
                  /\ 8 * rows[i][c] > hi8 => rows'[i][c] = hi8
                  /\ (lo8 <= 8 * rows[i][c] /\ 8 * rows[i][c] <= hi8)
                       => rows'[i][c] = 8 * rows[i][c]
                  /\ (q1 = 4 * 10 * den[c] /\ q3 = 4 * 30 * den[c]) =>
                       /\ rows[i][c] = 75 * den[c] => rows'[i][c] = 60 * den'[c]
                       /\ rows[i][c] = -25 * den[c] => rows'[i][c] = -20 * den'[c]]_vars

\* The stage has run on a column with Q1 = 10 and Q3 = 30 (bounds -20 and 60),
\* capping one value to each bound.
C6_Witness ==
  /\ pc = "feature"
  /\ den[StayColumn] = 8
  /\ report.bounds[StayColumn].lower = -20 * 8
  /\ report.bounds[StayColumn].upper = 60 * 8
  /\ \E i \in 1..Len(rows) : rows[i][StayColumn] = 60 * 8
  /\ \E i \in 1..Len(rows) : rows[i][StayColumn] = -20 * 8

(***************************************************************************)
(* Properties of the CategoricalEncoder.  The stage turns category cells   *)
(* into number cells, so its steps are told from stuttering by pc alone.   *)
(***************************************************************************)
\* The index of the first row that carries category v.
FirstRowOf(vals, v) == CHOOSE i \in 1..Len(vals) : vals[i] = v /\ \A j \in 1..(i - 1) : vals[j] # v

C8_StableInjectiveOrdinal ==
  [][pc = "encode" =>
       \A c \in CategoricalColumns(kind) :
         LET col == Column(rows, c)
             plan == report'.plans[c]
         IN  plan.strategy = "ordinal" =>
               /\ DOMAIN plan.mapping = Distinct(col)
               /\ \A i, j \in 1..Len(rows) :
                    (rows'[i][c] = rows'[j][c]) <=> (rows[i][c] = rows[j][c])
               /\ \A i \in 1..Len(rows) : rows'[i][c] = plan.mapping[rows[i][c]]
               /\ \A u, v \in Distinct(col) :
                    (plan.mapping[u] = plan.mapping[v]) => u = v
               /\ {plan.mapping[v] : v \in Distinct(col)} = 0..(Cardinality(Distinct(col)) - 1)
               /\ \A u, v \in Distinct(col) :
                    (plan.mapping[u] < plan.mapping[v])
                      <=> (FirstRowOf(col, u) < FirstRowOf(col, v))]_pc

\* An ordinal-encoded column in which one category is carried by two rows and
\* the first category encountered is not the first in alphabetical order.
C8_Witness ==
  /\ pc = "rank"
  /\ "diag_1" \in DOMAIN report.plans
  /\ report.plans["diag_1"].strategy = "ordinal"
  /\ report.plans["diag_1"].mapping["260"] = 0
  /\ report.plans["diag_1"].mapping["250"] = 10
  /\ \E i, j \in 1..Len(rows) : i # j /\ rows[i]["diag_1"] = rows[j]["diag_1"]

(***************************************************************************)
(* Properties of the Imputer.                                              *)
(***************************************************************************)
\* The columns the Imputer has to treat: neither identifier nor target, with
\* at least one missing value.
ColumnsWithMissing ==
  {c \in DOMAIN kind :
     /\ kind[c] \notin {"identifier", "target"}
     /\ \E i \in 1..Len(rows) : rows[i][c] = MissingOf(kind[c])}

\* The values of column c that are not missing.
NonMissing(c) == SelectSeq(Column(rows, c), LAMBDA v : v # MissingOf(kind[c]))

\* The strategies whose rule, as the contract lists them, matches column c.
MatchingRules(c) ==
  LET n == Len(rows)
      m == n - Len(NonMissing(c))
  IN  {st \in {"mode", "median", "neighbor", "drop", "constant"} :
         CASE st = "mode" -> kind[c] = "categorical"
           [] st = "median" -> kind[c] = "numeric" /\ 100 * m < 20 * n
           [] st = "neighbor" -> kind[c] = "numeric" /\ 100 * m >= 20 * n
           [] st = "drop" -> m = n
           [] st = "constant" -> /\ kind[c] = "numeric" /\ m < n
                                 /\ Cardinality(Distinct(NonMissing(c))) = 1}

\* The listed rules in the order in which they take precedence.
RulePrecedence == <<"drop", "mode", "constant", "median", "neighbor">>

\* The first rule, in precedence order, that matches column c.
FirstMatchingRule(c) ==
  RulePrecedence[CHOOSE k \in 1..Len(RulePrecedence) :
                   /\ RulePrecedence[k] \in MatchingRules(c)
                   /\ \A j \in 1..(k - 1) : RulePrecedence[j] \notin MatchingRules(c)]

\* C10 (as stated): every column with a missing value matches exactly one of
\* the five rules, and that rule's strategy is the one applied.
C10_AsStated ==
  [][pc = "impute" =>
       \A c \in ColumnsWithMissing :
         /\ Cardinality(MatchingRules(c)) = 1
         /\ report'.decisions[c] \in MatchingRules(c)]_vars

\* C10 (amended): every column with a missing value gets exactly one strategy,
\* the first of these that matches: 100% missing -> dropped; categorical ->
\* mode; numeric with a single distinct non-missing value -> that constant;
\* numeric with missing fraction strictly below 20% -> median; numeric with
\* missing fraction at or above 20% -> neighbor-based fill.  The rules overlap,
\* so a column may match two of them; every column matches at least one.  The
\* strategy is applied: a dropped column is gone, a filled column has no missing
\* value, its non-missing values are unchanged, and the filled value is the
\* mode, the constant, a median, or a value within the range of the column.
C10_OneStrategyByPrecedence ==
  [][pc = "impute" =>
       /\ DOMAIN report'.decisions = ColumnsWithMissing
       /\ \A c \in ColumnsWithMissing :
            LET st == report'.decisions[c]
                pres == NonMissing(c)
                k == Len(pres)
                missing == {i \in 1..Len(rows) : rows[i][c] = MissingOf(kind[c])}
            IN  /\ MatchingRules(c) # {}
                /\ st = FirstMatchingRule(c)
                /\ st = "drop" <=> c \notin DOMAIN kind'
                /\ st = "drop" <=> c \in report'.dropped
                /\ st # "drop" =>
                     /\ \A i \in 1..Len(rows) : rows'[i][c] # MissingOf(kind[c])
                     /\ kind[c] = "numeric" =>
                          \A i \in (1..Len(rows)) \ missing :
                            rows'[i][c] * den[c] = rows[i][c] * den'[c]
                     /\ kind[c] = "categorical" =>
                          \A i \in (1..Len(rows)) \ missing : rows'[i][c] = rows[i][c]
                /\ st = "mode" =>
                     \A i \in missing : \A j \in 1..k :
                       Count(pres, pres[j]) <= Count(pres, rows'[i][c])
                /\ st = "constant" =>
                     \A i \in missing : rows'[i][c] * den[c] = pres[1] * den'[c]
                /\ st = "median" =>
                     \A i \in missing :
                       /\ 2 * Cardinality({j \in 1..k :
                            pres[j] * den'[c] <= rows'[i][c] * den[c]}) >= k
                       /\ 2 * Cardinality({j \in 1..k :
                            pres[j] * den'[c] >= rows'[i][c] * den[c]}) >= k
                /\ st = "neighbor" =>
                     \A i \in missing :
                       /\ \E j \in 1..k : pres[j] * den'[c] <= rows'[i][c] * den[c]
                       /\ \E j \in 1..k : pres[j] * den'[c] >= rows'[i][c] * den[c]]_vars

\* The Imputer has run on five rows of which exactly one lacked the weight
\* (a missing fraction of exactly 20%, filled from its four neighbors) and at
\* least one lacked the race.
C10_Witness ==
  /\ pc = "outlier"
  /\ Len(rows) = 5
  /\ "weight" \in DOMAIN report.decisions /\ report.decisions["weight"] = "neighbor"
  /\ den["weight"] = 4
  /\ "race" \in DOMAIN report.decisions /\ report.decisions["race"] = "mode"

(***************************************************************************)
(* The Imputer on its own (handle_missing_values()): a numeric and a       *)
(* categorical column with missing values, beside a populated numeric      *)
(* column.                                                                 *)
(***************************************************************************)
MaxImputeRows == 6

ImputeCells ==
  { [weight |-> NaN, race |-> "Caucasian"], [weight |-> 60, race |-> "Caucasian"],
    [weight |-> 80, race |-> "Asian"], [weight |-> 80, race |-> NA] }

ImputeDatasets ==
  {[i \in 1..Len(cs) |->
      [encounter_id |-> i, weight |-> cs[i].weight, race |-> cs[i].race,
       time_in_hospital |-> i * i, readmitted_30_days |-> i % 2]] :
     cs \in SeqsUpTo(ImputeCells, MaxImputeRows) \ {<<>>}}

InitImputer ==
  /\ rows \in ImputeDatasets
  /\ kind = [encounter_id |-> "identifier", weight |-> "numeric",
             race |-> "categorical", time_in_hospital |-> "numeric",
             readmitted_30_days |-> "target"]
  /\ den = [encounter_id |-> 1, weight |-> 1, race |-> 1, time_in_hospital |-> 1,
            readmitted_30_days |-> 1]
  /\ report = EmptyReport
  /\ ranking = NoRanking
  /\ fitted = Unfitted
  /\ parked = <<>>
  /\ active = 1
  /\ PagesInitial
  /\ pc = "impute"

NextImputer == Imputer

SpecImputer == InitImputer /\ [][NextImputer]_vars

(***************************************************************************)
(* The CategoricalEncoder on its own (encode_categorical_features()): one  *)
(* categorical column of d distinct values over n rows.                    *)
(***************************************************************************)
MaxEncodeRows == 12

\* Row i holds the ((i-1) mod d)-th of d diagnosis codes, counted upwards or
\* downwards.
EncodeColumn(n, d, up) ==
  [i \in 1..n |-> ToString(250 + (IF up THEN (i - 1) % d ELSE d - 1 - ((i - 1) % d)))]

EncodeDatasets ==
  {[i \in 1..n |-> [encounter_id |-> i, diag_1 |-> EncodeColumn(n, d, up)[i]]] :
     n \in 1..MaxEncodeRows, d \in 1..MaxEncodeRows, up \in BOOLEAN}

InitEncoder ==
  /\ rows \in EncodeDatasets
  /\ kind = [encounter_id |-> "identifier", diag_1 |-> "categorical"]
  /\ den = [encounter_id |-> 1, diag_1 |-> 1]
  /\ report = EmptyReport
  /\ ranking = NoRanking
  /\ fitted = Unfitted
  /\ parked = <<>>
  /\ active = 1
  /\ PagesInitial
  /\ pc = "encode"

NextEncoder == CategoricalEncoder

SpecEncoder == InitEncoder /\ [][NextEncoder]_vars

(***************************************************************************)
(* Runs over raw files whose schema may lack columns.                      *)
(***************************************************************************)
MaxSchemaRows == 2

\* The columns a raw file may lack.
OptionalColumns == {DischargeColumn, GenderColumn, StatusColumn, "weight"}

\* Row r without the columns in gone.
WithoutColumns(r, gone) == [c \in (DOMAIN r) \ gone |-> r[c]]

\* Raw rows, among them one whose readmission status is not a known category
\* and one that differs from another only in holding an empty cell where the
\* other holds the sentinel.
SchemaRowChoices ==
  RawRowChoices \cup
    { [BaseRow EXCEPT !.encounter_id = 8, !.readmitted = "Unknown"],
      [BaseRow EXCEPT !.encounter_id = 2, !.gender = "Male", !.race = NA,
                      !.age = "[70-80)", !.time_in_hospital = 9,
                      !.num_lab_procedures = 60, !.num_procedures = 5,
                      !.number_outpatient = 2, !.readmitted = "<30"] }

InitSchema ==
  \E gone \in SUBSET OptionalColumns :
    /\ rows \in {[i \in 1..Len(rs) |-> WithoutColumns(rs[i], gone)] :
                   rs \in SeqsUpTo(SchemaRowChoices, MaxSchemaRows)}
    /\ kind = [c \in (DOMAIN RawKind) \ gone |-> RawKind[c]]
    /\ den = [c \in (DOMAIN RawKind) \ gone |-> 1]
    /\ report = EmptyReport
    /\ ranking = NoRanking
    /\ fitted = Unfitted
    /\ parked = <<>>
    /\ active = 1
    /\ PagesInitial
    /\ pc = "clean"

SpecSchema == InitSchema /\ [][Next]_vars

(***************************************************************************)
(* Properties of failure.                                                  *)
(***************************************************************************)
\* C11: when the raw schema lacks the discharge-disposition column or the
\* gender column, the Cleaner raises DataFormatError: the run fails, no filter
\* is applied and no cleaned dataset is handed on.
C11_CleanerRequiresColumns ==
  [][(pc = "clean" /\ ~({"discharge_disposition_id", "gender"} \subseteq DOMAIN kind)) =>
       /\ pc' = "failed"
       /\ report'.error = "DataFormatError"
       /\ rows' = rows
       /\ report'.removed = report.removed]_vars

\* The Cleaner has failed on a schema without the gender column whose rows
\* include an expired/hospice discharge, which the other filter would remove.
C11_Witness ==
  /\ pc = "failed"
  /\ report.error = "DataFormatError"
  /\ "gender" \notin DOMAIN kind
  /\ "discharge_disposition_id" \in DOMAIN kind
  /\ \E i \in 1..Len(rows) : rows[i]["discharge_disposition_id"] \in ExpiredHospiceCodes

\* C12: when the readmission-status column is missing, or some row holds a
\* status outside the three expected categories, the TargetDeriver fails with
\* DataFormatError and produces no target column; a dataset that has a target
\* column holds only rows whose status was one of the three categories.
C12_TargetDeriverRejects ==
  /\ [][(/\ pc = "target"
          /\ \/ "readmitted" \notin DOMAIN kind
             \/ \E i \in 1..Len(rows) : rows[i]["readmitted"] \notin {"<30", ">30", "NO"}) =>
           /\ pc' = "failed"
           /\ report'.error = "DataFormatError"
           /\ "readmitted_30_days" \notin DOMAIN kind'
           /\ \A i \in 1..Len(rows') : "readmitted_30_days" \notin DOMAIN rows'[i]]_vars
  /\ []((pc = "impute" /\ "readmitted_30_days" \in DOMAIN kind) =>
          \A i \in 1..Len(rows) : rows[i]["readmitted"] \in {"<30", ">30", "NO"})

\* The TargetDeriver has failed on a dataset in which one row holds an unknown
\* status next to a row with an expected one.
C12_Witness ==
  /\ pc = "failed"
  /\ report.error = "DataFormatError"
  /\ "readmitted" \in DOMAIN kind
  /\ report.raw_rows = 2 /\ Len(rows) = 2
  /\ \E i \in 1..Len(rows) : rows[i]["readmitted"] = "Unknown"
  /\ \E i \in 1..Len(rows) : rows[i]["readmitted"] = "<30"

\* C13: once a stage has raised DataFormatError the run has halted: the
\* failing stage hands on no dataset, no stage takes a step afterwards, and the
\* run ends with the error, never with a processed dataset.
C13_ErrorHalts ==
  /\ [][report.error # "DataFormatError"]_vars
  /\ [][report'.error = "DataFormatError" =>
          /\ pc' = "failed"
          /\ rows' = rows /\ kind' = kind /\ den' = den]_vars
  /\ [](report.error = "DataFormatError" <=> pc = "failed")

\* The Cleaner has run and removed a row, then the TargetDeriver has failed for
\* want of the status column; no later stage has left a trace in the report.
C13_Witness ==
  /\ pc = "failed"
  /\ report.error = "DataFormatError"
  /\ "readmitted" \notin DOMAIN kind
  /\ report.raw_rows = 2 /\ Len(rows) = 1
  /\ report.decisions = <<>> /\ report.bounds = <<>> /\ report.plans = <<>>

(***************************************************************************)
(* The ImportanceRanker on its own, run twice on the same input.           *)
(***************************************************************************)
MaxRankRows == 50

\* The target of row i: both classes, a single positive row, or one class.
RankTarget(pattern, i) ==
  CASE pattern = "mixed" -> i % 2
    [] pattern = "one positive" -> IF i = 1 THEN 1 ELSE 0
    [] pattern = "all negative" -> 0
    [] pattern = "all positive" -> 1

RankDatasets ==
  {[i \in 1..n |->
      [encounter_id |-> i, age_numeric |-> 5 + 10 * (i % 4),
       num_procedures |-> i % 3, weight |-> 60 + (i % 5),
       readmitted_30_days |-> RankTarget(pattern, i)]] :
     n \in (MinRankRows - 1)..MaxRankRows,
     pattern \in {"mixed", "one positive", "all negative", "all positive"}}

InitRanker ==
  /\ rows \in RankDatasets
  /\ kind = [encounter_id |-> "identifier", age_numeric |-> "numeric",
             num_procedures |-> "numeric", weight |-> "numeric",
             readmitted_30_days |-> "target"]
  /\ den = [encounter_id |-> 1, age_numeric |-> 1, num_procedures |-> 1,
            weight |-> 1, readmitted_30_days |-> 1]
  /\ report = EmptyReport
  /\ ranking = NoRanking
  /\ fitted = Unfitted
  /\ parked = <<>>
  /\ active = 1
  /\ PagesInitial
  /\ pc = "rank"

NextRanker == ImportanceRanker \/ ImportanceRankerAgain

SpecRanker == InitRanker /\ [][NextRanker]_vars

NamePosition == [age_numeric |-> 1, num_procedures |-> 2, weight |-> 3]

\* C15: the ranking lists every feature column exactly once, rank k at place
\* k, by combined score descending; of two features with equal combined score
\* the one whose name comes first is ranked first.
C15_RankingOrder ==
  [][(pc = "rank" /\ ranking'.error = "none") =>
       LET order == ranking'.order
           F == {c \in DOMAIN kind : kind[c] \notin {"identifier", "target"}}
       IN  /\ Len(order) = Cardinality(F)
           /\ {order[k].column : k \in 1..Len(order)} = F
           /\ \A k \in 1..Len(order) : order[k].rank = k
           /\ \A k, l \in 1..Len(order) :
                k < l =>
                  LET x == order[k].score
                      y == order[l].score
                  IN  /\ x.num * y.den >= y.num * x.den
                      /\ x.num * y.den = y.num * x.den =>
                           NamePosition[order[k].column] < NamePosition[order[l].column]]_vars

\* A ranking in which the first two features have equal combined score and the
\* third a lower one, the last name in natural order being ranked second.
C15_Witness ==
  /\ pc = "done"
  /\ ranking.error = "none"
  /\ Len(ranking.order) = 3
  /\ ranking.order[1].score.num # NaN
  /\ ranking.order[1].score.num * ranking.order[2].score.den
       = ranking.order[2].score.num * ranking.order[1].score.den
  /\ ranking.order[2].score.num * ranking.order[3].score.den
       > ranking.order[3].score.num * ranking.order[2].score.den
  /\ ranking.order[1].column = "age_numeric"
  /\ ranking.order[2].column = "weight"

StagePositions ==
  <<"clean", "target", "impute", "outlier", "feature", "encode", "rank", "done">>

\* C18: the stages run in the order Cleaner, TargetDeriver, Imputer,
\* OutlierHandler, FeatureEngineer, CategoricalEncoder, ImportanceRanker: every
\* step is the step of the one stage whose turn it is and ends with the turn
\* of its successor (or with the failure of the run), and the dataset, the
\* report and the ranking change in no other way, so each stage starts from
\* what its predecessor left.
C18_StageOrder ==
  /\ [][\E k \in 1..(Len(StagePositions) - 1) :
          /\ pc = StagePositions[k]
          /\ pc' = StagePositions[k + 1] \/ (k <= 2 /\ pc' = "failed")]_vars
  /\ [][pc' = pc => UNCHANGED <<rows, kind, den, report, ranking>>]_vars
  /\ [][(rows' # rows \/ kind' # kind \/ den' # den) => pc \notin {"rank", "done", "failed"}]_vars
  /\ [](pc \in {"clean"} => report.raw_rows = 0 /\ report.removed = <<>>)
  /\ [](pc \in {"clean", "target"} => "readmitted_30_days" \notin DOMAIN kind)
  /\ [](pc \in {"clean", "target", "impute"} => report.decisions = <<>>)
  /\ [](pc \in {"clean", "target", "impute", "outlier"} => report.bounds = <<>>)
  /\ [](pc \in {"clean", "target", "impute", "outlier", "feature"} => report.derived = {})
  /\ [](pc \in {"clean", "target", "impute", "outlier", "feature", "encode"} =>
          report.plans = <<>>)
  /\ [](pc # "done" => ranking = NoRanking)

\* A run has gone through all seven stages, each having left its trace.
C18_Witness ==
  /\ pc = "done"
  /\ report.raw_rows > Len(rows)
  /\ "readmitted_30_days" \in DOMAIN kind
  /\ report.decisions # <<>>
  /\ report.bounds # <<>>
  /\ report.derived # {}
  /\ report.plans # <<>>
  /\ ranking # NoRanking

(***************************************************************************)
(* Several runs of the pipeline, their stages interleaved.  One run is     *)
(* executing a stage at a time; between stages any other run may be        *)
(* resumed.  Runs 1 and 3 are given the same raw dataset.                  *)
(***************************************************************************)
\* The state of the run that is executing.
Executing ==
  [ rows |-> rows, kind |-> kind, den |-> den, report |-> report, pc |-> pc,
    ranking |-> ranking, fitted |-> fitted ]

\* A run that has not started, on raw dataset rs.
NotStarted(rs) ==
  [ rows |-> rs, kind |-> RawKind, den |-> [c \in DOMAIN RawKind |-> 1],
    report |-> EmptyReport, pc |-> "clean", ranking |-> NoRanking,
    fitted |-> Unfitted ]

\* The state of run k.
RunState(k) == IF k = active THEN Executing ELSE parked[k]

\* Run k is resumed in place of the run that was executing.
Switch ==
  \E k \in DOMAIN parked :
    /\ active' = k
    /\ parked' = [j \in ((DOMAIN parked) \ {k}) \cup {active} |->
                    IF j = active THEN Executing ELSE parked[j]]
    /\ rows' = parked[k].rows
    /\ kind' = parked[k].kind
    /\ den' = parked[k].den
    /\ report' = parked[k].report
    /\ pc' = parked[k].pc
    /\ ranking' = parked[k].ranking
    /\ fitted' = parked[k].fitted
    /\ UNCHANGED pages

RunDatasets ==
  LET second == [BaseRow EXCEPT !.encounter_id = 2, !.gender = "Male",
                                !.race = Sentinel, !.weight = NaN,
                                !.readmitted = "<30"]
      hospice == [BaseRow EXCEPT !.encounter_id = 3,
                                 !.discharge_disposition_id = "11"]
      unknown == [BaseRow EXCEPT !.encounter_id = 7, !.readmitted = Sentinel]
  IN  { <<BaseRow, second>>, <<BaseRow, hospice, BaseRow>>, <<unknown>> }

InitRuns ==
  \E a, b \in RunDatasets :
    /\ rows = a
    /\ kind = RawKind
    /\ den = [c \in DOMAIN RawKind |-> 1]
    /\ report = EmptyReport
    /\ ranking = NoRanking
    /\ fitted = Unfitted
    /\ pc = "clean"
    /\ active = 1
    /\ PagesInitial
    /\ parked = (2 :> NotStarted(b)) @@ (3 :> NotStarted(a))

NextRuns == Next \/ Switch

SpecRuns == InitRuns /\ [][NextRuns]_vars

\* What run k returns: the processed dataset, the report and the ranking, or
\* the error.
Returned(k) ==
  LET r == RunState(k)
  IN  [ rows |-> r.rows, kind |-> r.kind, den |-> r.den, report |-> r.report,
        ranking |-> r.ranking, outcome |-> r.pc ]

MaxDemoRows == 6

\* A raw dataset of n distinct encounters: the first h end in expired/hospice
\* discharge, the next w lack the weight, and of the encounters that are not
\* expired/hospice the first p are "<30", the next q ">30", the others "NO".
DemoDataset(sc) ==
  [i \in 1..sc.n |->
     [BaseRow EXCEPT
        !.encounter_id = 100 + i,
        !.discharge_disposition_id = IF i <= sc.h THEN "11" ELSE "1",
        !.weight = IF i > sc.h /\ i <= sc.h + sc.w THEN NaN ELSE 50 + (i % 40),
        !.time_in_hospital = 1 + (i % 14),
        !.readmitted = IF i <= sc.h THEN "NO"
                       ELSE IF i - sc.h <= sc.p THEN "<30"
                       ELSE IF i - sc.h <= sc.p + sc.q THEN ">30"
                       ELSE "NO"]]

\* The demonstration run (1,000 records, 188 death/hospice, 51 without weight)
\* and the class-balance scenario (92 / 300 / 277).
DemoScenarios ==
  { [n |-> 1000, h |-> 188, w |-> 51, p |-> 92, q |-> 300],
    [n |-> 669, h |-> 0, w |-> 0, p |-> 92, q |-> 300] }

SmallScenarios ==
  { sc \in [n : 0..MaxDemoRows, h : 0..MaxDemoRows, w : 0..MaxDemoRows,
            p : 0..1, q : 0..1] : sc.h + sc.w <= sc.n }

InitDemo ==
  /\ \E sc \in DemoScenarios \cup SmallScenarios : rows = DemoDataset(sc)
  /\ kind = RawKind
  /\ den = [c \in DOMAIN RawKind |-> 1]
  /\ report = EmptyReport
  /\ ranking = NoRanking
  /\ fitted = Unfitted
  /\ parked = <<>>
  /\ active = 1
  /\ PagesInitial
  /\ pc = "clean"

NextDemo == Cleaner \/ TargetDeriver \/ Imputer

SpecDemo == InitDemo /\ [][NextDemo]_vars


\* C21: in the demonstration run (1,000 raw rows without duplicates, 188 of
\* them with an expired/hospice discharge, 51 without weight) the Cleaner
\* removes the 188 rows and no other, so 812 rows are left, the 51 rows
\* without weight among them, and the Imputer fills the weight by the
\* neighbor method.
C21_DemoRowCount ==
  report.raw_rows = 1000 =>
    /\ AfterCleaner =>
         /\ Len(rows) = 812
         /\ report.removed = [ duplicates |-> 0, expired_hospice |-> 188,
                               unknown_gender |-> 0, duplicate_encounters |-> 0 ]
    /\ pc \in {"target", "impute"} => Count(Column(rows, "weight"), NaN) = 51
    /\ AfterImputer =>
         /\ Count(Column(rows, "weight"), NaN) = 0
         /\ report.decisions["weight"] = "neighbor"

MaxFeatureRows == 2

\* The source columns that may be empty in the raw file.
EmptyableColumns == {"age", "insulin", "diag_1", "number_emergency", "time_in_hospital"}

FeatureRow(i) ==
  [BaseRow EXCEPT
     !.encounter_id = 20 + i,
     !.age = IF i = 1 THEN "[20-30)" ELSE IF i = 2 THEN "[70-80)" ELSE "[40-50)",
     !.metformin = IF i <= 2 THEN "Steady" ELSE "No",
     !.insulin = IF i % 2 = 1 THEN "Up" ELSE "No",
     !["glipizide"] = IF i = 1 THEN "Down" ELSE "No",
     !.time_in_hospital = IF i = 3 THEN 0 ELSE 4 * i,
     !.num_procedures = i,
     !.num_lab_procedures = 30 + 7 * i,
     !.number_emergency = i - 1,
     !.number_inpatient = 2,
     !.readmitted = IF i = 1 THEN "<30" ELSE "NO"]

\* n encounters in which every column of empty holds the raw file's sign of
\* a missing value in every row.
FeatureDataset(n, empty) ==
  [i \in 1..n |->
     [c \in DOMAIN RawKind |->
        IF c \notin empty THEN FeatureRow(i)[c]
        ELSE IF RawKind[c] = "numeric" THEN NaN ELSE Sentinel]]

InitFeatures ==
  /\ \E n \in 1..MaxFeatureRows : \E empty \in SUBSET EmptyableColumns :
       rows = FeatureDataset(n, empty)
  /\ kind = RawKind
  /\ den = [c \in DOMAIN RawKind |-> 1]
  /\ report = EmptyReport
  /\ ranking = NoRanking
  /\ fitted = Unfitted
  /\ parked = <<>>
  /\ active = 1
  /\ PagesInitial
  /\ pc = "clean"

\* run(rawDataset) over raw datasets with empty columns.
SpecFeatures == InitFeatures /\ [][Next]_vars

NextOrders ==
  \/ Cleaner
  \/ TargetDeriver
  \/ Imputer
  \/ OutlierHandler
  \/ FeatureEngineerInAnyOrder

\* The same runs up to the FeatureEngineer, its steps taken in any order.
SpecOrders == InitFeatures /\ [][NextOrders]_vars

\* C23: the derivation steps of the FeatureEngineer taken in any order give
\* the dataset (and the record of derived and omitted features) that the
\* stage's own order gives.
C23_AnyOrderSameDataset ==
  [][pc = "feature" /\ pc' = "encode" =>
       LET out == DeriveAll([rows |-> rows, kind |-> kind, den |-> den,
                             omitted |-> {}, derived |-> {}], DerivationOrder)
       IN  /\ kind' = out.kind
           /\ rows' = out.rows
           /\ report'.derived = out.derived
           /\ report'.omitted = out.omitted]_pc


\* The raw columns a derived feature needs, directly or through the derived
\* column it reads.
RawColumnsNeeded(name) ==
  IF name = "age_group" THEN {"age"} ELSE DerivedSources(name)

\* C24: when the Imputer has dropped columns, the FeatureEngineer omits
\* exactly the derived features that need a dropped column and records them
\* as omitted; it raises no error, produces every other derived feature and
\* hands the run to the CategoricalEncoder.
C24_OmittedNotFatal ==
  [][pc = "feature" =>
       LET all == {DerivationOrder[k] : k \in 1..Len(DerivationOrder)}
           hit == {f \in all : RawColumnsNeeded(f) \cap report.dropped # {}}
       IN  /\ pc' = "encode"
           /\ report'.error = "none"
           /\ report'.omitted = hit
           /\ report'.derived = all \ hit
           /\ \A f \in all : f \in DOMAIN kind' <=> f \notin hit
           /\ \A f \in all \ hit : \A i \in 1..Len(rows') : f \in DOMAIN rows'[i]
           /\ Len(rows') = Len(rows)]_pc

C24_Witness ==
  /\ pc = "rank"
  /\ report.dropped = {"insulin", "time_in_hospital"}
  /\ report.omitted = {"total_medications_changed", "high_risk_patient",
                       "lab_procedures_per_day"}
  /\ report.derived = {"age_numeric", "age_group", "diagnosis_count",
                       "service_utilization"}
  /\ report.error = "none"


\* C25: in every row total_medications_changed is the number of columns of
\* the medication list whose value in that row is not "no change" (3 when 3
\* of the 23 are changed and 20 are not), and the medication columns are in
\* the dataset after the stage with the values they had before it.
C25_MedicationsChanged ==
  [][(pc = "feature" /\ MedicationColumns \subseteq DOMAIN kind) =>
       LET meds == SetToSeq(MedicationColumns)
           changed(r) == SumSeq([k \in 1..Len(meds) |->
                                   IF r[meds[k]] = NoChange THEN 0 ELSE 1])
       IN  /\ Len(meds) = 23
           /\ Len(rows') = Len(rows)
           /\ \A i \in 1..Len(rows) :
                /\ rows'[i]["total_medications_changed"] = changed(rows[i])
                /\ Cardinality({m \in MedicationColumns : rows[i][m] = NoChange}) = 20
                     => rows'[i]["total_medications_changed"] = 3
                /\ \A m \in MedicationColumns :
                     /\ m \in DOMAIN rows'[i]
                     /\ rows'[i][m] = rows[i][m]
           /\ \A m \in MedicationColumns :
                m \in DOMAIN kind' /\ kind'[m] = kind[m]]_pc

C25_Witness ==
  /\ pc = "encode"
  /\ \E i \in 1..Len(rows) :
       /\ rows[i]["total_medications_changed"] = 3
       /\ Cardinality({m \in MedicationColumns : rows[i][m] = NoChange}) = 20
       /\ Cardinality({m \in MedicationColumns : rows[i][m] # NoChange}) = 3


\* C26: the indicator columns that the CategoricalEncoder generates have
\* pairwise distinct names after normalization, also for two categories of one
\* column, and no generated name is the name of a column that existed before.
C26_DistinctNames ==
  [][pc = "encode" =>
       LET plans == report'.plans
           hot == OneHotColumns(plans)
       IN  /\ \A c \in hot : \A u, v \in DOMAIN plans[c].mapping :
                u # v => plans[c].mapping[u] # plans[c].mapping[v]
           /\ \A c, d \in hot : \A u \in DOMAIN plans[c].mapping :
                \A v \in DOMAIN plans[d].mapping :
                  c # d => plans[c].mapping[u] # plans[d].mapping[v]
           /\ IndicatorColumns(plans) \cap DOMAIN kind = {}]_pc

(***************************************************************************)
(* CommunicationPage on its own: the pipeline is not running and the other *)
(* pages stay as constructed.                                              *)
(***************************************************************************)
PipelineIdle ==
  /\ rows = <<>>
  /\ kind = RawKind
  /\ den = [c \in DOMAIN RawKind |-> 1]
  /\ report = EmptyReport
  /\ ranking = NoRanking
  /\ fitted = Unfitted
  /\ pc = "idle"
  /\ active = 1
  /\ parked = <<>>

InitPages == PipelineIdle /\ PagesInitial

NextCommunication ==
  setSelectedContact \/ setActiveTab \/ setMessageInput \/ handleSendMessage

SpecCommunication == InitPages /\ [][NextCommunication]_vars

\* The business whose list holds the contact.
BusinessOf(contact) ==
  IF \E k \in DOMAIN skyElectroChats : skyElectroChats[k] = contact
  THEN "skyelectro" ELSE "healthplus"

\* C27: after any sequence of contact clicks and tab switches, a contact
\* that the visible list draws as selected is the contact whose conversation
\* the chat area shows (never a contact of the other business with the same
\* id), and the chat header has the colour of the selected contact's business.
C27_HighlightedIsShown ==
  /\ \A k \in DOMAIN ContactList :
       Highlighted(ContactList[k]) =>
         /\ ContactList[k] = selectedContact
         /\ messages[1].content = ContactList[k].lastMessage
  /\ selectedContact # Null =>
       HeaderColour = AvatarColour(BusinessOf(selectedContact))

(***************************************************************************)
(* SignupPage on its own.  The browser runs every timer callback that is   *)
(* due, which is the fairness of setTimeoutCallback.                       *)
(***************************************************************************)
NextSignup ==
  setFormData \/ onSubmit \/ setTimeoutCallback \/ BackToHome \/ MountSignupPage

SpecSignup == InitPages /\ [][NextSignup]_vars

SpecSignupFair == SpecSignup /\ WF_vars(setTimeoutCallback)

\* C28: a submit while password differs from confirmPassword only alerts:
\* isLoading is and stays false, formData is unchanged, no timer is started,
\* router.push is not called and the page stays where it is.
C28_MismatchOnlyAlerts ==
  [][(submits'.total = submits.total + 1
        /\ formData.password # formData.confirmPassword)
     => /\ alerts' = Append(alerts, "Passwords do not match")
        /\ ~isLoading /\ ~isLoading'
        /\ formData' = formData
        /\ timers' = timers
        /\ pushes' = pushes
        /\ route' = route
        /\ submits'.accepted = submits.accepted]_vars

C28_Witness ==
  /\ submits = [total |-> 1, accepted |-> 0]
  /\ alerts = <<"Passwords do not match">>
  /\ formData.password = "a" /\ formData.confirmPassword = "b"
  /\ ~isLoading /\ timers = <<>> /\ pushes = <<>> /\ route = "/signup"

\* C29: every submit with matching passwords sets isLoading to true and starts
\* one timer without navigating; while isLoading is true no submit happens;
\* router.push('/dashboard') is called only by a timer that fires, once per
\* timer, so the navigations never outnumber the accepted submits; and every
\* accepted submit is eventually followed by its navigation, and isLoading
\* by isLoading being false again.
C29_SubmitThenOneNavigation ==
  /\ [][submits'.accepted = submits.accepted + 1
          => /\ isLoading'
             /\ timers' = Append(timers, instance)
             /\ pushes' = pushes]_vars
  /\ [][isLoading => submits' = submits]_vars
  /\ [](Len(pushes) <= submits.accepted)
  /\ [](Len(pushes) + Len(timers) = submits.accepted)
  /\ [][pushes' # pushes
          => /\ timers # <<>>
             /\ timers' = Tail(timers)
             /\ pushes' = Append(pushes, "/dashboard")
             /\ (Head(timers) = instance => ~isLoading')]_vars
  /\ \A n \in 1..MaxSubmits :
       (submits.accepted >= n) ~> (Len(pushes) >= n)
  /\ isLoading ~> ~isLoading

C29_Witness ==
  /\ submits.accepted = 2
  /\ pushes = <<"/dashboard", "/dashboard">>
  /\ timers = <<>>
  /\ ~isLoading
  /\ route = "/dashboard"

(***************************************************************************)
(* SettingsPage on its own.                                                *)
(***************************************************************************)
NextSettings ==
  \/ setProfileData \/ setPreferences \/ setShowPassword
  \/ setCurrentPassword \/ setNewPassword \/ setConfirmPassword
  \/ handleSaveProfile \/ handleSavePreferences \/ handleChangePassword

SpecSettings == InitPages /\ [][NextSettings]_vars

\* C30: handleChangePassword with newPassword different from confirmPassword
\* reports the mismatch and leaves currentPassword, newPassword and
\* confirmPassword as they are; with the two equal, both empty included, it
\* reports success and resets the three fields to the empty string; either
\* way profileData, preferences and showPassword are unchanged.
C30_ChangePassword ==
  [][handleChangePassword
     => /\ IF newPassword # confirmPassword
           THEN /\ alerts' = Append(alerts, "New passwords do not match!")
                /\ currentPassword' = currentPassword
                /\ newPassword' = newPassword
                /\ confirmPassword' = confirmPassword
           ELSE /\ alerts' = Append(alerts, "Password changed successfully!")
                /\ currentPassword' = ""
                /\ newPassword' = ""
                /\ confirmPassword' = ""
        /\ profileData' = profileData
        /\ preferences' = preferences
        /\ showPassword' = showPassword]_vars

C30_Witness ==
  /\ alerts = <<"New passwords do not match!", "Password changed successfully!">>
  /\ currentPassword = "" /\ newPassword = "" /\ confirmPassword = ""
  /\ profileData # InitialProfileData
  /\ preferences # InitialPreferences
  /\ showPassword

====
